---- MODULE Spec2Model ----
(***************************************************************************)
(* call-system/app.py: the reminder call scheduler.                        *)
(*                                                                         *)
(* A background thread (scheduler_loop) and the POST /run-once handler     *)
(* (run_once) both execute process_due_once over the users collection;     *)
(* call_phone is the Twilio call and mark_called the calledAt write.       *)
(* An action is one access to shared state (the clock, the store, the      *)
(* provider) together with the local computation that follows it, so the   *)
(* two paths interleave as the threads do.                                 *)
(***************************************************************************)
EXTENDS Integers, Sequences, FiniteSets, TLC

(***************************************************************************)
(* Bounds of the model.                                                    *)
(***************************************************************************)
\* the raw phone numbers normalize_e164 is applied to on its own have at most MaxLen
\* characters (and the two numbers of the specification's examples)
MaxLen == 3
\* the manual trigger is invoked at most MaxManual times
MaxManual == 1
\* after the scheduled instants the clock reads WINDOW_SECONDS+1 up to
\* WINDOW_SECONDS+1+MaxLate, the instants at which the windows close
MaxLate == 1

(***************************************************************************)
(* Configuration (app.py:16-38).                                           *)
(***************************************************************************)
WINDOW_SECONDS == 900
INTERVAL_SECONDS == 60
DEFAULT_COUNTRY_CODE == <<"+", "9", "1">>

\* Python's None for calledAt, and a missing (falsy) createdAt
Null == -1
NoId == 0
\* None where a string is expected (phoneNumber)
NoneStr == <<"None">>
EmptyStr == <<>>

\* the threads that run process_due_once: the scheduler thread and the threads
\* the server handles POST /run-once requests on
Handlers == {"manual", "manual2"}
Procs == {"periodic"} \cup Handlers

(***************************************************************************)
(* Time.  The clock is monotonic and reads one of a few instants: the      *)
(* scheduled instants of the stored reminders and the instants around the  *)
(* end of their windows.  The last, Horizon, stands for every instant from *)
(* which all windows are closed.                                           *)
(***************************************************************************)
Instants == {0, 1}
Horizon == WINDOW_SECONDS + 1 + MaxLate
Times == Instants \cup ((WINDOW_SECONDS + 1) .. Horizon)

(***************************************************************************)
(* Stored documents.  A date or time string is kept as its format and the  *)
(* number of seconds it denotes:                                           *)
(*   date  "iso" YYYY-MM-DD | "dmy" DD/MM/YYYY | "bad" | "none" (missing)  *)
(*   time  "hm" HH:MM | "hms" HH:MM:SS | "hm_tz" HH:MM+05:30 | "bad" |     *)
(*         "none" (missing)                                                *)
(***************************************************************************)
DateStr(fmt, v) == [fmt |-> fmt, v |-> v]
TimeStr(fmt, v) == [fmt |-> fmt, v |-> v]
Reminder(d, t, m, cid) ==
    [date |-> d, time |-> t, message |-> m, createdAt |-> cid, calledAt |-> Null]
User(uid, num, en, rems) ==
    [userId |-> uid, phoneNumber |-> num, phoneRemindersEnabled |-> en, reminders |-> rems]

Iso(v) == DateStr("iso", v)
Hm(v) == TimeStr("hm", v)

(***************************************************************************)
(* The text of a date or time string, a sequence of characters, read as    *)
(* fromisoformat and strptime read it (the zero-padded forms): its format  *)
(* and the seconds it denotes, dates counted from 1970-01-01.              *)
(***************************************************************************)
DigitChars == <<"0", "1", "2", "3", "4", "5", "6", "7", "8", "9">>
IsDigit(ch) == \E n \in 1 .. 10 : DigitChars[n] = ch
DigitValue(ch) == (CHOOSE n \in 1 .. 10 : DigitChars[n] = ch) - 1
AreDigits(s, from, to) == \A i \in from .. to : IsDigit(s[i])
RECURSIVE NumberOf(_)
NumberOf(s) ==
    IF s = << >> THEN 0
    ELSE 10 * NumberOf(SubSeq(s, 1, Len(s) - 1)) + DigitValue(s[Len(s)])
Field(s, from, to) == NumberOf(SubSeq(s, from, to))

IsLeap(y) == (y % 4 = 0 /\ y % 100 # 0) \/ y % 400 = 0
DaysIn(y, m) ==
    IF m = 2 THEN (IF IsLeap(y) THEN 29 ELSE 28)
    ELSE IF m \in {4, 6, 9, 11} THEN 30 ELSE 31
LeapDaysBefore(y) == (y - 1) \div 4 - (y - 1) \div 100 + (y - 1) \div 400
RECURSIVE DaysBeforeMonth(_, _)
DaysBeforeMonth(y, m) ==
    IF m = 1 THEN 0 ELSE DaysBeforeMonth(y, m - 1) + DaysIn(y, m - 1)
ValidDate(y, m, d) == y >= 1 /\ m \in 1 .. 12 /\ d >= 1 /\ d <= DaysIn(y, m)
Midnight(y, m, d) ==
    (365 * (y - 1970) + (LeapDaysBefore(y) - LeapDaysBefore(1970))
       + DaysBeforeMonth(y, m) + (d - 1)) * 86400

\* YYYY-MM-DD is the date fromisoformat accepts, DD/MM/YYYY the one "%d/%m/%Y" accepts
DateStrOf(text) ==
    IF text = EmptyStr \/ text = NoneStr THEN DateStr("none", 0)
    ELSE IF /\ Len(text) = 10 /\ text[5] = "-" /\ text[8] = "-"
            /\ AreDigits(text, 1, 4) /\ AreDigits(text, 6, 7) /\ AreDigits(text, 9, 10)
            /\ ValidDate(Field(text, 1, 4), Field(text, 6, 7), Field(text, 9, 10))
    THEN DateStr("iso", Midnight(Field(text, 1, 4), Field(text, 6, 7), Field(text, 9, 10)))
    ELSE IF /\ Len(text) = 10 /\ text[3] = "/" /\ text[6] = "/"
            /\ AreDigits(text, 1, 2) /\ AreDigits(text, 4, 5) /\ AreDigits(text, 7, 10)
            /\ ValidDate(Field(text, 7, 10), Field(text, 4, 5), Field(text, 1, 2))
    THEN DateStr("dmy", Midnight(Field(text, 7, 10), Field(text, 4, 5), Field(text, 1, 2)))
    ELSE DateStr("bad", 0)

IsHourMinute(s, at) ==
    /\ AreDigits(s, at, at + 1) /\ s[at + 2] = ":" /\ AreDigits(s, at + 3, at + 4)
    /\ Field(s, at, at + 1) <= 23 /\ Field(s, at + 3, at + 4) <= 59

\* HH:MM is the time both accept; fromisoformat alone accepts seconds and a UTC offset
TimeStrOf(text) ==
    IF text = EmptyStr \/ text = NoneStr THEN TimeStr("none", 0)
    ELSE IF Len(text) = 5 /\ IsHourMinute(text, 1)
    THEN TimeStr("hm", Field(text, 1, 2) * 3600 + Field(text, 4, 5) * 60)
    ELSE IF /\ Len(text) = 8 /\ IsHourMinute(text, 1) /\ text[6] = ":"
            /\ AreDigits(text, 7, 8) /\ Field(text, 7, 8) <= 59
    THEN TimeStr("hms", Field(text, 1, 2) * 3600 + Field(text, 4, 5) * 60 + Field(text, 7, 8))
    ELSE IF /\ Len(text) = 11 /\ IsHourMinute(text, 1) /\ text[6] \in {"+", "-"}
            /\ IsHourMinute(text, 7)
    THEN TimeStr("hm_tz", Field(text, 1, 2) * 3600 + Field(text, 4, 5) * 60)
    ELSE TimeStr("bad", 0)

\* the stores the runs start from
StoreMixed ==
    << User("u1", <<"9", " ", "8">>, TRUE,
            << Reminder(Iso(0), Hm(0), "m1", 1),
               Reminder(DateStr("bad", 0), Hm(1), "m2", 2),
               Reminder(DateStr("dmy", 0), Hm(1), "m1", NoId) >>),
       User("u2", EmptyStr, TRUE,
            << Reminder(Iso(0), Hm(1), "m1", 3) >>) >>

StoreAware ==
    << User("u1", NoneStr, TRUE,
            << Reminder(Iso(0), Hm(0), "m1", 1) >>),
       User("u2", <<"+", "1", "5">>, TRUE,
            << Reminder(Iso(0), Hm(1), "m1", 2),
               Reminder(Iso(0), TimeStr("hm_tz", 1), "m2", 3),
               Reminder(Iso(0), Hm(0), "m3", 4) >>) >>

StoreTwins ==
    << User("u1", <<"7">>, FALSE,
            << Reminder(Iso(0), Hm(1), "m1", 1) >>),
       User("u2", <<"(", "7", ")">>, TRUE,
            << Reminder(Iso(0), Hm(1), "m1", NoId),
               Reminder(Iso(0), Hm(1), "m1", NoId),
               Reminder(Iso(0), TimeStr("none", 0), "m2", 2) >>) >>

\* one user with a reminder whose time carries a UTC offset between two that are
\* scheduled a second after the service starts
StoreBehind ==
    << User("u1", <<"+", "1", "5">>, TRUE,
            << Reminder(Iso(0), Hm(1), "m1", 1),
               Reminder(Iso(0), TimeStr("hm_tz", 1), "m2", 2),
               Reminder(Iso(0), Hm(1), "m3", 3) >>) >>

\* one user with two reminders a second apart, the first with a createdAt
StorePair ==
    << User("u1", <<"+", "1", "5">>, TRUE,
            << Reminder(Iso(0), Hm(0), "m1", 1),
               Reminder(Iso(0), Hm(1), "m2", NoId) >>) >>

\* a user who has switched the reminders off, and a user with one reminder
StoreSolo ==
    << User("u1", <<"7">>, FALSE,
            << Reminder(Iso(0), Hm(0), "m1", 1) >>),
       User("u2", <<"0", "7">>, TRUE,
            << Reminder(Iso(0), Hm(1), "m1", NoId) >>) >>

\* a user whose reminders lack a date or a time or carry one in no accepted format,
\* followed by one that can be called
StoreSkips ==
    << User("u1", <<"+", "1", "5">>, TRUE,
            << Reminder(DateStr("none", 0), Hm(0), "m1", 1),
               Reminder(Iso(0), TimeStr("bad", 0), "m1", NoId),
               Reminder(DateStr("bad", 0), Hm(0), "m2", 2),
               Reminder(Iso(0), TimeStr("none", 0), "m2", NoId),
               Reminder(DateStr("dmy", 0), TimeStr("hm_tz", 0), "m3", 3),
               Reminder(Iso(0), Hm(1), "m1", NoId) >>) >>

\* a user with two reminders due at the same instant, and a user who has switched
\* the reminders off; NewReminder is the reminder the first user adds later
StoreEdit ==
    << User("u1", <<"+", "1", "5">>, TRUE,
            << Reminder(Iso(0), Hm(0), "m1", 1),
               Reminder(Iso(0), Hm(0), "m2", 2) >>),
       User("u2", <<"7">>, FALSE,
            << Reminder(Iso(0), Hm(0), "m1", 3) >>) >>
NewReminder == Reminder(Iso(0), Hm(0), "m3", 4)

Stores == {StoreMixed, StoreAware}

\* a stored reminder is named by the index of its user document and its index in
\* the reminders array
KeysOf(coll) ==
    UNION {{<<u, i>> : i \in 1 .. Len(coll[u].reminders)} : u \in 1 .. Len(coll)}
Keys == UNION {KeysOf(coll) : coll \in {StoreMixed, StoreAware, StoreTwins, StorePair, StoreSolo,
                                     StoreSkips, StoreEdit, StoreBehind}}

VARIABLES
    db,             \* the db handle is not None (app.py:24-34)
    twilio_client,  \* the Twilio client exists (app.py:35)
    TWILIO_PHONE,   \* the caller number is set (app.py:20)
    users,          \* the users collection: a sequence of user documents
    clock,          \* the wall clock
    pc,             \* pc[p]: where thread p is
    now,            \* now[p]: process_due_once's local 'now'
    snap,           \* snap[p]: process_due_once's local 'users' list
    ui, ri,         \* position of the two for loops in snap[p] (1-based)
    wakeAt,         \* when the scheduler thread's sleep ends
    manualRuns,     \* how many /run-once requests have been accepted
    schedulerError, \* the loop's last iteration printed "Scheduler error"
    response,       \* response[h]: handler h's last response: "none", "success", "error"
    health,         \* the last /health response, or NoHealth
    queried,        \* history: db.users.find has been executed
    failed,         \* history: the reminders some call_phone has raised for
    calls,          \* history: calls[k], successful call_phone returns for reminder k
    writes,         \* history: writes[k], calledAt writes on reminder k
    examined,       \* history: examined[p], reminders the pass's inner loop has reached
    attempted,      \* history: attempted[p], reminders call_phone was invoked for
    dispatched,     \* history: dispatched[p], reminders call_phone returned for
    markedBy,       \* history: markedBy[p], reminders the pass's mark_called wrote
    unwritten,      \* history: unwritten[p], reminders whose update_one raised in the pass
    snapMarked,     \* history: snapMarked[p], reminders already called when the pass ran find
    overtaken,      \* history: overtaken[p], reminders of the pass's snapshot that it had
                    \* not reached when their user was disabled or they were written
    arg,            \* the argument a function is applied to, where one is applied on its own
    ret,            \* << >>, or <<r>> with r what the function returned for arg
    tries           \* history: tries[k], call_phone invocations for reminder k that raised,
                    \* kept in the runs that count them

passVars == <<now, snap, ui, ri>>
histVars == <<queried, failed, calls, writes, examined, attempted, dispatched, markedBy,
              unwritten, snapMarked>>
confVars == <<db, twilio_client, TWILIO_PHONE>>
ctlVars == <<wakeAt, manualRuns, schedulerError, response, health>>
fnVars == <<arg, ret>>
envVars == <<overtaken>>
meterVars == <<tries>>
vars == <<db, twilio_client, TWILIO_PHONE, users, clock, pc, now, snap, ui, ri, wakeAt,
          manualRuns, schedulerError, response, health, queried, failed, calls, writes,
          examined, attempted, dispatched, markedBy, unwritten, snapMarked, overtaken,
          arg, ret, tries>>

(***************************************************************************)
(* try_parse_datetime (app.py:41-59)                                       *)
(***************************************************************************)
NoneDt == [ok |-> FALSE, inst |-> 0, aware |-> FALSE]

\* datetime.fromisoformat(date + sep + time): ISO date, any separator, HH:MM or
\* HH:MM:SS with or without a UTC offset; with an offset the result is timezone-aware
fromisoformat(d, sep, t) ==
    IF d.fmt = "iso" /\ t.fmt \in {"hm", "hms", "hm_tz"}
    THEN [ok |-> TRUE, inst |-> d.v + t.v, aware |-> (t.fmt = "hm_tz")]
    ELSE NoneDt

\* datetime.strptime(date + sep + time, "%d/%m/%Y %H:%M")
strptime(d, sep, t) ==
    IF d.fmt = "dmy" /\ sep = " " /\ t.fmt = "hm"
    THEN [ok |-> TRUE, inst |-> d.v + t.v, aware |-> FALSE]
    ELSE NoneDt

\* faulty variant of the loop: the strptime fallback of lines 53-58 is missing
RECURSIVE TryCandidatesIsoOnly(_, _, _)
TryCandidatesIsoOnly(seps, d, t) ==
    IF seps = << >> THEN NoneDt
    ELSE IF fromisoformat(d, Head(seps), t).ok THEN fromisoformat(d, Head(seps), t)
    ELSE TryCandidatesIsoOnly(Tail(seps), d, t)

RECURSIVE TryCandidates(_, _, _)
TryCandidates(seps, d, t) ==
    IF seps = << >> THEN NoneDt
    ELSE IF fromisoformat(d, Head(seps), t).ok THEN fromisoformat(d, Head(seps), t)
    ELSE IF strptime(d, Head(seps), t).ok THEN strptime(d, Head(seps), t)
    ELSE TryCandidates(Tail(seps), d, t)

try_parse_datetime(date_str, time_str) ==
    IF date_str.fmt = "none" \/ time_str.fmt = "none"
    THEN NoneDt
    ELSE TryCandidates(<<" ", "T">>, date_str, time_str)

(***************************************************************************)
(* normalize_e164 (app.py:98-114)                                          *)
(***************************************************************************)
\* the characters str.strip() removes at both ends (those that occur in the model)
Whitespace == {" ", "\t"}
RECURSIVE LStrip(_)
LStrip(s) == IF s # << >> /\ Head(s) \in Whitespace THEN LStrip(Tail(s)) ELSE s
RECURSIVE RStrip(_)
RStrip(s) ==
    IF s # << >> /\ s[Len(s)] \in Whitespace THEN RStrip(SubSeq(s, 1, Len(s) - 1)) ELSE s
Strip(s) == RStrip(LStrip(s))
IsSeparator(ch) == ch \in {" ", "-", "(", ")"}
RemoveSeparators(s) == SelectSeq(s, LAMBDA ch : ~IsSeparator(ch))

\* faulty variant: line 106 is missing, the number is not stripped
normalize_e164Unstripped(number) ==
    IF number = NoneStr \/ number = EmptyStr THEN number
    ELSE LET n == RemoveSeparators(number)
         IN  IF n # << >> /\ Head(n) = "+" THEN n ELSE DEFAULT_COUNTRY_CODE \o n

normalize_e164(number) ==
    IF number = NoneStr \/ number = EmptyStr THEN number
    ELSE LET n == RemoveSeparators(Strip(number))
         IN  IF n # << >> /\ Head(n) = "+" THEN n ELSE DEFAULT_COUNTRY_CODE \o n

(***************************************************************************)
(* call_phone (app.py:62-69).  The provider is outside the program: it may *)
(* reject any call, and it cannot place one to no number at all.           *)
(***************************************************************************)
ProviderCanAccept(to_number) ==
    /\ to_number # NoneStr
    /\ to_number # EmptyStr

(***************************************************************************)
(* mark_called (app.py:72-95): update_one sets the first array element     *)
(* that matches the array condition, in the first document that matches.   *)
(***************************************************************************)
\* faulty variant of the filter: line 80 is missing, so with a createdAt the query
\* names the user alone and the positional operator takes the first element
ElemMatchesNoId(e, reminder) ==
    IF reminder.createdAt # NoId
    THEN TRUE
    ELSE /\ e.date = reminder.date
         /\ e.time = reminder.time
         /\ e.message = reminder.message
         /\ e.calledAt = Null

\* faulty variant of the filter: line 88 is missing, so the value match also takes
\* an element that has been called
ElemMatchesAnyCalledAt(e, reminder) ==
    IF reminder.createdAt # NoId
    THEN e.createdAt = reminder.createdAt
    ELSE /\ e.date = reminder.date
         /\ e.time = reminder.time
         /\ e.message = reminder.message

ElemMatches(e, reminder) ==
    IF reminder.createdAt # NoId
    THEN e.createdAt = reminder.createdAt
    ELSE /\ e.date = reminder.date
         /\ e.time = reminder.time
         /\ e.message = reminder.message
         /\ e.calledAt = Null

DocMatches(d, user_id, reminder) ==
    /\ d.userId = user_id
    /\ \E i \in 1 .. Len(d.reminders) : ElemMatches(d.reminders[i], reminder)

FirstElem(d, reminder) ==
    CHOOSE i \in 1 .. Len(d.reminders) :
        /\ ElemMatches(d.reminders[i], reminder)
        /\ \A j \in 1 .. (i - 1) : ~ElemMatches(d.reminders[j], reminder)

\* <<document index, element index>> update_one writes, or <<0, 0>>
MarkTarget(coll, user_id, reminder) ==
    IF \E j \in 1 .. Len(coll) : DocMatches(coll[j], user_id, reminder)
    THEN LET j == CHOOSE j \in 1 .. Len(coll) :
                      /\ DocMatches(coll[j], user_id, reminder)
                      /\ \A h \in 1 .. (j - 1) : ~DocMatches(coll[h], user_id, reminder)
         IN  <<j, FirstElem(coll[j], reminder)>>
    ELSE <<0, 0>>

\* faulty variant of the update: the path "reminders.0.calledAt", which sets the first
\* element of the matched document
mark_calledFirst(coll, user_id, reminder, utcnow) ==
    LET t == MarkTarget(coll, user_id, reminder)
    IN  IF t = <<0, 0>> THEN coll
        ELSE [coll EXCEPT ![t[1]].reminders[1].calledAt = utcnow]

\* faulty variant of the update: the path "reminders.$" with the value {calledAt: now},
\* which replaces the matched element and drops its other fields
mark_calledReplacing(coll, user_id, reminder, utcnow) ==
    LET t == MarkTarget(coll, user_id, reminder)
    IN  IF t = <<0, 0>> THEN coll
        ELSE [coll EXCEPT ![t[1]].reminders[t[2]] =
                  [date |-> DateStr("none", 0), time |-> TimeStr("none", 0), message |-> "",
                   createdAt |-> NoId, calledAt |-> utcnow]]

\* faulty variant of the update: the all-positional path "reminders.$[].calledAt",
\* which sets every element of the matched document
mark_calledAll(coll, user_id, reminder, utcnow) ==
    LET t == MarkTarget(coll, user_id, reminder)
    IN  IF t = <<0, 0>> THEN coll
        ELSE [coll EXCEPT ![t[1]].reminders =
                  [i \in 1 .. Len(@) |-> [@[i] EXCEPT !.calledAt = utcnow]]]

mark_called(coll, user_id, reminder, utcnow) ==
    LET t == MarkTarget(coll, user_id, reminder)
    IN  IF t = <<0, 0>> THEN coll
        ELSE [coll EXCEPT ![t[1]].reminders[t[2]].calledAt = utcnow]

(***************************************************************************)
(* process_due_once (app.py:117-149)                                       *)
(***************************************************************************)
\* the filter of db.users.find: the dict literal names "$ne" twice and Python keeps
\* the last, so the condition on phoneNumber is {"$ne": ""} alone
FindFilter(d) ==
    /\ d.phoneRemindersEnabled = TRUE
    /\ d.phoneNumber # EmptyStr

Projection(d) == [userId |-> d.userId, phoneNumber |-> d.phoneNumber, reminders |-> d.reminders]

RECURSIVE FindUsers(_)
FindUsers(coll) ==
    IF coll = << >> THEN << >>
    ELSE IF FindFilter(Head(coll))
         THEN <<Projection(Head(coll))>> \o FindUsers(Tail(coll))
         ELSE FindUsers(Tail(coll))

\* faulty variants of the window test: both bounds exclusive; no upper bound
IsDueExclusive(diff) == 0 < diff /\ diff < WINDOW_SECONDS
IsDueNoHorizon(diff) == 0 <= diff
\* faulty variant of the window test: no lower bound
IsDueNoLowerBound(diff) == diff <= WINDOW_SECONDS

IsDue(diff) == 0 <= diff /\ diff <= WINDOW_SECONDS

\* faulty variant of the inner loop: try_parse_datetime lets the ValueError of an
\* unparseable string out, and it leaves the pass
ClassifyUnparseableRaises(r, nw) ==
    LET dt == try_parse_datetime(r.date, r.time)
    IN  IF r.calledAt # Null THEN "continue"
        ELSE IF ~dt.ok THEN "TypeError"
        ELSE IF dt.aware THEN "TypeError"
        ELSE IF IsDue(nw - dt.inst) THEN "due"
        ELSE "continue"

\* variant of the inner loop: before the window test the reminder is read again from
\* the store, and is passed over when it has been called or its user is disabled
ClassifyRereadingStore(r, nw) ==
    LET dt == try_parse_datetime(r.date, r.time)
        stale == \E u \in 1 .. Len(users) : \E i \in 1 .. Len(users[u].reminders) :
                     /\ [users[u].reminders[i] EXCEPT !.calledAt = Null] = [r EXCEPT !.calledAt = Null]
                     /\ \/ users[u].reminders[i].calledAt # Null
                        \/ ~users[u].phoneRemindersEnabled
    IN  IF r.calledAt # Null \/ stale THEN "continue"
        ELSE IF ~dt.ok THEN "continue"
        ELSE IF dt.aware THEN "TypeError"
        ELSE IF IsDue(nw - dt.inst) THEN "due"
        ELSE "continue"

\* faulty variant of the inner loop: the calledAt test of line 136 is missing
ClassifyIgnoringCalledAt(r, nw) ==
    LET dt == try_parse_datetime(r.date, r.time)
    IN  IF ~dt.ok THEN "continue"
        ELSE IF dt.aware THEN "TypeError"
        ELSE IF IsDue(nw - dt.inst) THEN "due"
        ELSE "continue"

\* lines 136-142: what one iteration of the inner loop does with reminder r
Classify(r, nw) ==
    LET dt == try_parse_datetime(r.date, r.time)
    IN  IF r.calledAt # Null THEN "continue"
        ELSE IF ~dt.ok THEN "continue"
        \* now - dt with dt timezone-aware: a TypeError, raised outside the try
        ELSE IF dt.aware THEN "TypeError"
        ELSE IF IsDue(nw - dt.inst) THEN "due"
        ELSE "continue"

\* the position of the two for loops after skipping users whose list is exhausted
RECURSIVE NormPos(_, _, _)
NormPos(s, u, i) ==
    IF u > Len(s) THEN <<u, 1>>
    ELSE IF i > Len(s[u].reminders) THEN NormPos(s, u + 1, 1)
    ELSE <<u, i>>

\* lines 131-142: the loops run from position <<u, i>> of snapshot s up to the next
\* call_phone, the TypeError or the end; seen collects the positions examined
RECURSIVE Scan(_, _, _, _, _)
Scan(s, nw, u, i, seen) ==
    LET pos == NormPos(s, u, i)
    IN  IF pos[1] > Len(s)
        THEN [pc |-> "returned", u |-> pos[1], i |-> 1, seen |-> seen]
        ELSE LET c == Classify(s[pos[1]].reminders[pos[2]], nw)
                 sn == seen \cup {pos}
             IN  IF c = "due"
                 THEN [pc |-> "call", u |-> pos[1], i |-> pos[2], seen |-> sn]
                 ELSE IF c = "TypeError"
                 THEN [pc |-> "raised", u |-> pos[1], i |-> pos[2], seen |-> sn]
                 ELSE Scan(s, nw, pos[1], pos[2] + 1, sn)

\* the store's index of the user document with this userId
UserIndex(uid) == CHOOSE j \in 1 .. Len(users) : users[j].userId = uid

CurUser(p) == snap[p][ui[p]]
CurRem(p) == CurUser(p).reminders[ri[p]]
\* the stored reminder a position of the snapshot is a copy of
KeyOf(s, pos) == <<UserIndex(s[pos[1]].userId), pos[2]>>
CurKey(p) == KeyOf(snap[p], <<ui[p], ri[p]>>)

Configured == db /\ twilio_client /\ TWILIO_PHONE

\* the reminders of the snapshot of pass p that its loops have not reached
Unreached(p) ==
    {KeyOf(snap[p], <<u, i>>) :
        <<u, i>> \in UNION {{<<u, i>> : i \in 1 .. Len(snap[p][u].reminders)} :
                                u \in 1 .. Len(snap[p])}} \ examined[p]

CalledKeys(coll) ==
    {k \in Keys : /\ k[1] <= Len(coll)
                  /\ k[2] <= Len(coll[k[1]].reminders)
                  /\ coll[k[1]].reminders[k[2]].calledAt # Null}

\* the locals of a pass, and what is remembered of it, end with it
ResetPass(p) ==
    /\ now' = [now EXCEPT ![p] = 0]
    /\ snap' = [snap EXCEPT ![p] = << >>]
    /\ ui' = [ui EXCEPT ![p] = 1]
    /\ ri' = [ri EXCEPT ![p] = 1]
    /\ examined' = [examined EXCEPT ![p] = {}]
    /\ attempted' = [attempted EXCEPT ![p] = {}]
    /\ dispatched' = [dispatched EXCEPT ![p] = {}]
    /\ markedBy' = [markedBy EXCEPT ![p] = {}]
    /\ unwritten' = [unwritten EXCEPT ![p] = {}]
    /\ snapMarked' = [snapMarked EXCEPT ![p] = {}]
    /\ overtaken' = [overtaken EXCEPT ![p] = {}]

\* faulty variant of the loops: line 141 reads the clock anew for every reminder
LoopReadingClock(p, s, u, i) ==
    LET res == Scan(s, clock, u, i, {})
    IN  /\ pc' = [pc EXCEPT ![p] = res.pc]
        /\ ui' = [ui EXCEPT ![p] = res.u]
        /\ ri' = [ri EXCEPT ![p] = res.i]
        /\ examined' = [examined EXCEPT ![p] = @ \cup {KeyOf(s, pos) : pos \in res.seen}]

\* the loops go on in snapshot s from position <<u, i>>
Loop(p, s, u, i) ==
    LET res == Scan(s, now[p], u, i, {})
    IN  /\ pc' = [pc EXCEPT ![p] = res.pc]
        /\ ui' = [ui EXCEPT ![p] = res.u]
        /\ ri' = [ri EXCEPT ![p] = res.i]
        /\ examined' = [examined EXCEPT ![p] = @ \cup {KeyOf(s, pos) : pos \in res.seen}]

\* faulty variant of the entry: the guards of lines 118-123 are missing
BeginUnguarded(p) ==
    /\ pc[p] = "start"
    /\ pc' = [pc EXCEPT ![p] = "find"]
    /\ now' = [now EXCEPT ![p] = clock]
    /\ UNCHANGED <<confVars, fnVars, meterVars, envVars, users, clock, snap, ui, ri, ctlVars, histVars>>

\* variant of the entry: a lock shared by the two paths, a pass waits while another
\* is between its query and its last write
BeginExclusive(p) ==
    /\ pc[p] = "start"
    /\ \A q \in Procs \ {p} : pc[q] \notin {"find", "call", "mark"}
    /\ IF db /\ twilio_client /\ TWILIO_PHONE
       THEN /\ pc' = [pc EXCEPT ![p] = "find"]
            /\ now' = [now EXCEPT ![p] = clock]
       ELSE /\ pc' = [pc EXCEPT ![p] = "returned"]
            /\ UNCHANGED now
    /\ UNCHANGED <<confVars, fnVars, meterVars, envVars, users, clock, snap, ui, ri, ctlVars, histVars>>

\* lines 118-125: the configuration guards, then now = datetime.now()
Begin(p) ==
    /\ pc[p] = "start"
    /\ IF db /\ twilio_client /\ TWILIO_PHONE
       THEN /\ pc' = [pc EXCEPT ![p] = "find"]
            /\ now' = [now EXCEPT ![p] = clock]
       ELSE /\ pc' = [pc EXCEPT ![p] = "returned"]
            /\ UNCHANGED now
    /\ UNCHANGED <<confVars, fnVars, meterVars, envVars, users, clock, snap, ui, ri, ctlVars, histVars>>

\* lines 126-142: the query returns the snapshot and the loops start
Find(p) ==
    /\ pc[p] = "find"
    /\ snap' = [snap EXCEPT ![p] = FindUsers(users)]
    /\ Loop(p, FindUsers(users), 1, 1)
    /\ queried' = TRUE
    /\ snapMarked' = [snapMarked EXCEPT ![p] = CalledKeys(users)]
    /\ UNCHANGED <<confVars, fnVars, meterVars, envVars, users, clock, now, ctlVars, failed, calls, writes, attempted,
                   dispatched, markedBy, unwritten>>

\* lines 126-129: the store is unreachable and the query raises out of the pass
FindRaises(p) ==
    /\ pc[p] = "find"
    /\ pc' = [pc EXCEPT ![p] = "raised"]
    /\ queried' = TRUE
    /\ UNCHANGED <<confVars, fnVars, meterVars, envVars, users, clock, passVars, ctlVars, failed, calls, writes, examined,
                   attempted, dispatched, markedBy, unwritten, snapMarked>>

\* variant of the dispatch: the call is handed to a worker thread and the loops go on
\* at once, with the calledAt write left to the worker
CallReturnsDetached(p) ==
    /\ pc[p] = "call"
    /\ ProviderCanAccept(normalize_e164(CurUser(p).phoneNumber))
    /\ calls' = [calls EXCEPT ![CurKey(p)] = @ + 1]
    /\ attempted' = [attempted EXCEPT ![p] = @ \cup {CurKey(p)}]
    /\ dispatched' = [dispatched EXCEPT ![p] = @ \cup {CurKey(p)}]
    /\ Loop(p, snap[p], ui[p], ri[p] + 1)
    /\ UNCHANGED <<confVars, fnVars, meterVars, envVars, users, clock, now, snap, ctlVars, queried, failed,
                   writes, markedBy, unwritten, snapMarked>>

\* lines 144-146: call_phone returns
CallReturns(p) ==
    /\ pc[p] = "call"
    /\ ProviderCanAccept(normalize_e164(CurUser(p).phoneNumber))
    /\ pc' = [pc EXCEPT ![p] = "mark"]
    /\ calls' = [calls EXCEPT ![CurKey(p)] = @ + 1]
    /\ attempted' = [attempted EXCEPT ![p] = @ \cup {CurKey(p)}]
    /\ dispatched' = [dispatched EXCEPT ![p] = @ \cup {CurKey(p)}]
    /\ UNCHANGED <<confVars, fnVars, meterVars, envVars, users, clock, passVars, ctlVars, queried, failed, writes, examined,
                   markedBy, unwritten, snapMarked>>

\* faulty variant of the failed call: the error is swallowed inside call_phone and line 147 runs
CallRaisesThenMark(p) ==
    /\ pc[p] = "call"
    /\ attempted' = [attempted EXCEPT ![p] = @ \cup {CurKey(p)}]
    /\ failed' = failed \cup {CurKey(p)}
    /\ pc' = [pc EXCEPT ![p] = "mark"]
    /\ UNCHANGED <<confVars, fnVars, meterVars, envVars, users, clock, passVars, ctlVars, queried, calls, writes, examined,
                   dispatched, markedBy, unwritten, snapMarked>>

\* lines 146, 148-149: call_phone raises; the except clause logs and the loops go on
CallRaises(p) ==
    /\ pc[p] = "call"
    /\ attempted' = [attempted EXCEPT ![p] = @ \cup {CurKey(p)}]
    /\ failed' = failed \cup {CurKey(p)}
    /\ Loop(p, snap[p], ui[p], ri[p] + 1)
    /\ UNCHANGED <<confVars, fnVars, meterVars, envVars, users, clock, now, snap, ctlVars, queried, calls, writes,
                   dispatched, markedBy, unwritten, snapMarked>>

\* lines 146, 148-149 as in CallRaises, with the invocation counted
CallRaisesCounted(p) ==
    /\ pc[p] = "call"
    /\ attempted' = [attempted EXCEPT ![p] = @ \cup {CurKey(p)}]
    /\ failed' = failed \cup {CurKey(p)}
    /\ tries' = [tries EXCEPT ![CurKey(p)] = @ + 1]
    /\ Loop(p, snap[p], ui[p], ri[p] + 1)
    /\ UNCHANGED <<confVars, fnVars, envVars, users, clock, now, snap, ctlVars, queried, calls,
                   writes, dispatched, markedBy, unwritten, snapMarked>>

\* line 147: mark_called's update_one is applied, and the loops go on
Mark(p) ==
    /\ pc[p] = "mark"
    /\ LET t == MarkTarget(users, CurUser(p).userId, CurRem(p))
       IN  /\ users' = mark_called(users, CurUser(p).userId, CurRem(p), clock)
           /\ IF t = <<0, 0>>
              THEN UNCHANGED <<writes, markedBy>>
              ELSE /\ writes' = [writes EXCEPT ![t] = @ + 1]
                   /\ markedBy' = [markedBy EXCEPT ![p] = @ \cup {t}]
           /\ overtaken' = [q \in Procs |->
                                IF q # p THEN overtaken[q] \cup ({t} \cap Unreached(q))
                                ELSE overtaken[q]]
    /\ Loop(p, snap[p], ui[p], ri[p] + 1)
    /\ UNCHANGED <<confVars, fnVars, meterVars, clock, now, snap, ctlVars, queried, failed, calls, attempted,
                   dispatched, unwritten, snapMarked>>

\* faulty variant of the failed write: mark_called is outside the try and its error
\* leaves the pass
MarkRaisesUncaught(p) ==
    /\ pc[p] = "mark"
    /\ unwritten' = [unwritten EXCEPT ![p] = @ \cup {CurKey(p)}]
    /\ pc' = [pc EXCEPT ![p] = "raised"]
    /\ UNCHANGED <<confVars, fnVars, meterVars, envVars, users, clock, passVars, ctlVars, queried, failed,
                   calls, writes, examined, attempted, dispatched, markedBy, snapMarked>>

\* lines 147-149: update_one raises; the except clause logs and the loops go on
MarkRaises(p) ==
    /\ pc[p] = "mark"
    /\ unwritten' = [unwritten EXCEPT ![p] = @ \cup {CurKey(p)}]
    /\ Loop(p, snap[p], ui[p], ri[p] + 1)
    /\ UNCHANGED <<confVars, fnVars, meterVars, envVars, users, clock, now, snap, ctlVars, queried, failed, calls, writes,
                   attempted, dispatched, markedBy, snapMarked>>

(***************************************************************************)
(* scheduler_loop (app.py:152-158)                                         *)
(***************************************************************************)
\* faulty variant of the loop: no try/except around the pass, an error ends the thread
SchedulerSleepUncaught ==
    /\ pc["periodic"] = "returned"
    /\ schedulerError' = FALSE
    /\ pc' = [pc EXCEPT !["periodic"] = "sleeping"]
    /\ wakeAt' = clock + INTERVAL_SECONDS
    /\ ResetPass("periodic")
    /\ UNCHANGED <<confVars, fnVars, meterVars, users, clock, manualRuns, response, health, queried, failed, calls,
                   writes>>

\* faulty variant of the loop: the sleep lasts half the interval
SchedulerSleepHalf ==
    /\ pc["periodic"] \in {"returned", "raised"}
    /\ schedulerError' = (pc["periodic"] = "raised")
    /\ pc' = [pc EXCEPT !["periodic"] = "sleeping"]
    /\ wakeAt' = clock + INTERVAL_SECONDS \div 2
    /\ ResetPass("periodic")
    /\ UNCHANGED <<confVars, fnVars, meterVars, users, clock, manualRuns, response, health,
                   queried, failed, calls, writes>>

\* lines 154-158: the pass returned, or raised and was logged; time.sleep begins
SchedulerSleep ==
    /\ pc["periodic"] \in {"returned", "raised"}
    /\ schedulerError' = (pc["periodic"] = "raised")
    /\ pc' = [pc EXCEPT !["periodic"] = "sleeping"]
    /\ wakeAt' = clock + INTERVAL_SECONDS
    /\ ResetPass("periodic")
    /\ UNCHANGED <<confVars, fnVars, meterVars, users, clock, manualRuns, response, health, queried, failed, calls,
                   writes>>

\* faulty variant of the loop: it iterates before the sleep is over
SchedulerWakeEarly ==
    /\ pc["periodic"] = "sleeping"
    /\ pc' = [pc EXCEPT !["periodic"] = "start"]
    /\ wakeAt' = 0
    /\ schedulerError' = FALSE
    /\ UNCHANGED <<confVars, fnVars, meterVars, envVars, users, clock, passVars, manualRuns,
                   response, health, histVars>>

\* lines 153, 158: the sleep is over and the loop iterates (at Horizon any amount
\* of time passes unseen)
SchedulerWake ==
    /\ pc["periodic"] = "sleeping"
    /\ clock >= wakeAt \/ clock = Horizon
    /\ pc' = [pc EXCEPT !["periodic"] = "start"]
    /\ wakeAt' = 0
    /\ schedulerError' = FALSE
    /\ UNCHANGED <<confVars, fnVars, meterVars, envVars, users, clock, passVars, manualRuns, response, health, histVars>>

(***************************************************************************)
(* run_once (app.py:172-178)                                               *)
(***************************************************************************)
\* variant of the handler: a request is refused while a pass is in flight
RunOnceRequestBusy(h) ==
    /\ pc[h] = "idle"
    /\ h = "manual" \/ pc["manual"] # "idle"
    /\ \A q \in Procs : pc[q] \notin {"find", "call", "mark"}
    /\ manualRuns' = manualRuns + 1
    /\ pc' = [pc EXCEPT ![h] = "start"]
    /\ response' = [response EXCEPT ![h] = "none"]
    /\ UNCHANGED <<confVars, fnVars, meterVars, envVars, users, clock, passVars, wakeAt, schedulerError, health, histVars>>

\* line 173: a POST /run-once request arrives and the server runs the handler on a
\* thread of its own, h (the first that is idle)
RunOnceRequest(h) ==
    /\ pc[h] = "idle"
    /\ h = "manual" \/ pc["manual"] # "idle"
    /\ manualRuns' = manualRuns + 1
    /\ pc' = [pc EXCEPT ![h] = "start"]
    /\ response' = [response EXCEPT ![h] = "none"]
    /\ UNCHANGED <<confVars, fnVars, meterVars, envVars, users, clock, passVars, wakeAt, schedulerError, health, histVars>>

\* lines 176, 178: the response
RunOnceRespond(h) ==
    /\ pc[h] \in {"returned", "raised"}
    /\ response' = [response EXCEPT ![h] = IF pc[h] = "returned" THEN "success" ELSE "error"]
    /\ pc' = [pc EXCEPT ![h] = "idle"]
    /\ ResetPass(h)
    /\ UNCHANGED <<confVars, fnVars, meterVars, users, clock, wakeAt, manualRuns, schedulerError, health, queried,
                   failed, calls, writes>>

(***************************************************************************)
(* health (app.py:161-169)                                                 *)
(***************************************************************************)
NoHealth ==
    [ok |-> FALSE, mongodb |-> FALSE, twilio |-> FALSE, windowSeconds |-> 0,
     intervalSeconds |-> 0]

\* variant of the handler: the health query runs the users query to probe the store
HealthProbing ==
    /\ health' = [ok |-> TRUE,
                  mongodb |-> db,
                  twilio |-> (twilio_client /\ TWILIO_PHONE),
                  windowSeconds |-> WINDOW_SECONDS,
                  intervalSeconds |-> INTERVAL_SECONDS]
    /\ queried' = TRUE
    /\ UNCHANGED <<confVars, fnVars, meterVars, envVars, users, clock, pc, passVars, wakeAt, manualRuns, schedulerError,
                   response, failed, calls, writes, examined, attempted, dispatched, markedBy,
                   unwritten, snapMarked>>

\* lines 163-169: a GET /health request is answered
Health ==
    /\ health' = [ok |-> TRUE,
                  mongodb |-> db,
                  twilio |-> (twilio_client /\ TWILIO_PHONE),
                  windowSeconds |-> WINDOW_SECONDS,
                  intervalSeconds |-> INTERVAL_SECONDS]
    /\ UNCHANGED <<confVars, fnVars, meterVars, envVars, users, clock, pc, passVars, wakeAt, manualRuns, schedulerError,
                   response, histVars>>

(***************************************************************************)
(* The clock moves on.                                                     *)
(***************************************************************************)
Tick ==
    /\ \E t \in Times : t > clock /\ clock' = t
    /\ UNCHANGED <<confVars, fnVars, meterVars, envVars, users, pc, passVars, ctlVars, histVars>>

PassStep(p) ==
    \/ Begin(p)
    \/ Find(p)
    \/ FindRaises(p)
    \/ CallReturns(p)
    \/ CallRaises(p)
    \/ Mark(p)
    \/ MarkRaises(p)

InitProgram(stores) ==
    /\ db \in BOOLEAN
    /\ twilio_client \in BOOLEAN
    /\ TWILIO_PHONE \in BOOLEAN
    /\ users \in stores
    /\ clock = 0
    /\ pc = [p \in Procs |-> IF p = "periodic" THEN "start" ELSE "idle"]
    /\ now = [p \in Procs |-> 0]
    /\ snap = [p \in Procs |-> << >>]
    /\ ui = [p \in Procs |-> 1]
    /\ ri = [p \in Procs |-> 1]
    /\ wakeAt = 0
    /\ manualRuns = 0
    /\ schedulerError = FALSE
    /\ response = [h \in Handlers |-> "none"]
    /\ health = NoHealth
    /\ queried = FALSE
    /\ failed = {}
    /\ calls = [k \in Keys |-> 0]
    /\ writes = [k \in Keys |-> 0]
    /\ examined = [p \in Procs |-> {}]
    /\ attempted = [p \in Procs |-> {}]
    /\ dispatched = [p \in Procs |-> {}]
    /\ markedBy = [p \in Procs |-> {}]
    /\ unwritten = [p \in Procs |-> {}]
    /\ snapMarked = [p \in Procs |-> {}]
    /\ overtaken = [p \in Procs |-> {}]
    /\ tries = [k \in Keys |-> 0]

InitWith(stores) ==
    /\ InitProgram(stores)
    /\ arg = << >>
    /\ ret = << >>

Init == InitWith(Stores)

Next ==
    \/ \E p \in Procs : PassStep(p)
    \/ SchedulerSleep
    \/ SchedulerWake
    \/ manualRuns < MaxManual /\ RunOnceRequest("manual")
    \/ \E h \in Handlers : RunOnceRespond(h)
    \/ Tick

Spec == Init /\ [][Next]_vars

\* the scheduler thread is not starved at the steps of its own loop, and time passes
Fairness ==
    /\ WF_vars(SchedulerSleep)
    /\ WF_vars(SchedulerWake)
    /\ WF_vars(Begin("periodic"))
    /\ WF_vars(Tick)

\* the runs of the loop, from the store in which a pass can fail at the query and
\* at a reminder, under that fairness
InitLoop == InitWith({StoreAware})
FairSpec == InitLoop /\ [][Next]_vars /\ Fairness

\* the runs that start from the store with value-identical reminders
InitTwins == InitWith({StoreTwins})
SpecTwins == InitTwins /\ [][Next]_vars

\* the runs that start from the store with one user and two reminders
InitPair == InitWith({StorePair})
SpecPair == InitPair /\ [][Next]_vars

InitSolo == InitWith({StoreSolo})

\* the runs in which POST /run-once requests arrive while earlier ones are still
\* being handled, as many requests as there are handler threads
NextTrigger ==
    \/ Next
    \/ \E h \in Handlers : manualRuns < Cardinality(Handlers) /\ RunOnceRequest(h)
SpecTrigger == InitSolo /\ [][NextTrigger]_vars

\* the whole service, health query included, over the store with one reminder
NextHealth == Next \/ Health
SpecHealth == InitSolo /\ [][NextHealth]_vars

\* the runs that start from the store with unparseable reminders
InitSkips == InitWith({StoreSkips})
SpecSkips == InitSkips /\ [][Next]_vars

\* the runs in which no two passes overlap and the store answers: a request arrives
\* while the scheduler thread is not in a pass, the sleep ends while no handler is,
\* the provider fails at will, and every find and update_one returns
InFlight(p) == pc[p] \in {"start", "find", "call", "mark"}

NextSerial ==
    \/ \E p \in Procs : Begin(p) \/ Find(p) \/ CallReturns(p) \/ CallRaises(p) \/ Mark(p)
    \/ SchedulerSleep
    \/ (\A h \in Handlers : ~InFlight(h)) /\ SchedulerWake
    \/ manualRuns < MaxManual /\ ~InFlight("periodic") /\ RunOnceRequest("manual")
    \/ \E h \in Handlers : RunOnceRespond(h)
    \/ Tick
InitSerial == InitTwins /\ Configured
SpecSerial == InitSerial /\ [][NextSerial]_vars

(***************************************************************************)
(* The users collection is written elsewhere as well: the account system   *)
(* switches a user's phone reminders on and off and adds reminders, at any *)
(* time.  The query of lines 126-129 reads what they leave.  In the runs   *)
(* below the first user switches them off, the second switches them on and *)
(* the first adds a reminder, each once.                                   *)
(***************************************************************************)
AccountDisables(u) ==
    /\ users[u].phoneRemindersEnabled
    /\ users' = [users EXCEPT ![u].phoneRemindersEnabled = FALSE]
    /\ overtaken' = [q \in Procs |-> overtaken[q] \cup {k \in Unreached(q) : k[1] = u}]
    /\ UNCHANGED <<confVars, fnVars, meterVars, clock, pc, passVars, ctlVars, histVars>>

AccountEnables(u) ==
    /\ ~users[u].phoneRemindersEnabled
    /\ users' = [users EXCEPT ![u].phoneRemindersEnabled = TRUE]
    /\ UNCHANGED <<confVars, fnVars, meterVars, envVars, clock, pc, passVars, ctlVars, histVars>>

ReminderAdded ==
    /\ Len(users[1].reminders) = Len(StoreEdit[1].reminders)
    /\ users' = [users EXCEPT ![1].reminders = Append(@, NewReminder)]
    /\ UNCHANGED <<confVars, fnVars, meterVars, envVars, clock, pc, passVars, ctlVars, histVars>>

InitEdit == InitWith({StoreEdit}) /\ Configured
\* one periodic pass and the manual passes, at one instant and with the store and the
\* provider answering, and the edits between their steps
NextEdit ==
    \/ \E p \in Procs : Begin(p) \/ Find(p) \/ CallReturns(p) \/ Mark(p)
    \/ manualRuns < MaxManual /\ RunOnceRequest("manual")
    \/ \E h \in Handlers : RunOnceRespond(h)
    \/ AccountDisables(1)
    \/ AccountEnables(2)
    \/ ReminderAdded
SpecEdit == InitEdit /\ [][NextEdit]_vars

(***************************************************************************)
(* normalize_e164 on its own: the function is applied to one raw number.   *)
(***************************************************************************)
PhoneChars == {" ", "\t", "-", "(", ")", "+", "9"}
Number98765 == <<"9", "8", "7", "6", "5", " ", "4", "3", "2", "1", "0">>
NumberPlus1 == <<"+", "1", " ", "5", "5", "5", "-", "1", "2", "3", "-", "4", "5", "6", "7">>
RawNumbers ==
    {NoneStr, Number98765, NumberPlus1} \cup UNION {[1 .. n -> PhoneChars] : n \in 0 .. MaxLen}

NormalizeApply ==
    /\ ret = << >>
    /\ ret' = <<normalize_e164(arg)>>
    /\ UNCHANGED <<confVars, envVars, meterVars, arg, users, clock, pc, passVars, ctlVars,
                   histVars>>

InitNormalize ==
    /\ InitProgram({StoreSolo})
    /\ Configured
    /\ arg \in RawNumbers
    /\ ret = << >>
NextNormalize == NormalizeApply
SpecNormalize == InitNormalize /\ [][NextNormalize]_vars

(***************************************************************************)
(* try_parse_datetime on its own: the function is applied to the text of   *)
(* one date and one time.                                                  *)
(***************************************************************************)
Date_2024_05_01 == <<"2", "0", "2", "4", "-", "0", "5", "-", "0", "1">>
Date_01_05_2024 == <<"0", "1", "/", "0", "5", "/", "2", "0", "2", "4">>
Date_not_a_date == <<"n", "o", "t", "-", "a", "-", "d", "a", "t", "e">>
DateEmpty == <<>>
Date_05_01_2024 == <<"0", "5", "/", "0", "1", "/", "2", "0", "2", "4">>
Date_2024_05_02 == <<"2", "0", "2", "4", "-", "0", "5", "-", "0", "2">>
Date_2024_05_01_slashes == <<"2", "0", "2", "4", "/", "0", "5", "/", "0", "1">>
Date_31_12_2023 == <<"3", "1", "/", "1", "2", "/", "2", "0", "2", "3">>
Date_2024_02_30 == <<"2", "0", "2", "4", "-", "0", "2", "-", "3", "0">>
Date_13_05_2024 == <<"1", "3", "/", "0", "5", "/", "2", "0", "2", "4">>
DateTexts ==
    {NoneStr, Date_2024_05_01,
     Date_01_05_2024,
     Date_not_a_date,
     DateEmpty,
     Date_05_01_2024,
     Date_2024_05_02,
     Date_2024_05_01_slashes,
     Date_31_12_2023,
     Date_2024_02_30,
     Date_13_05_2024}
Time_09_30 == <<"0", "9", ":", "3", "0">>
Time_09_31 == <<"0", "9", ":", "3", "1">>
TimeEmpty == <<>>
Time_9h30 == <<"9", "h", "3", "0">>
Time_09_30_05_30 == <<"0", "9", ":", "3", "0", "+", "0", "5", ":", "3", "0">>
Time_24_00 == <<"2", "4", ":", "0", "0">>
Time_09_30_15 == <<"0", "9", ":", "3", "0", ":", "1", "5">>
TimeTexts ==
    {NoneStr, Time_09_30,
     Time_09_31,
     TimeEmpty,
     Time_9h30,
     Time_09_30_05_30,
     Time_24_00,
     Time_09_30_15}

\* line 138: dt = try_parse_datetime(r.get("date"), r.get("time"))
ParseApply ==
    /\ ret = << >>
    /\ ret' = <<try_parse_datetime(DateStrOf(arg[1]), TimeStrOf(arg[2]))>>
    /\ UNCHANGED <<confVars, envVars, meterVars, arg, users, clock, pc, passVars, ctlVars,
                   histVars>>

InitParse ==
    /\ InitProgram({StoreSolo})
    /\ Configured
    /\ arg \in DateTexts \X TimeTexts
    /\ ret = << >>
NextParse == ParseApply
SpecParse == InitParse /\ [][NextParse]_vars

(***************************************************************************)
(* Timely runs.  The store and the provider always answer, a pass takes no *)
(* time, the loop iterates as soon as its sleep is over, and the sleep     *)
(* ends within WINDOW_SECONDS of the start of the pass before it: while    *)
(* the scheduler thread sleeps that pass started at wakeAt -               *)
(* INTERVAL_SECONDS.  The first pass starts with the service.  The clock   *)
(* reads the instants of the reminders, the first instant at which a sleep *)
(* that began at one of them is over, and Horizon.  Manual passes run in   *)
(* between.  The scheduler thread is not starved and time goes on.         *)
(***************************************************************************)
TimelyTimes == Instants \cup {1 + INTERVAL_SECONDS, Horizon}

TickTimely ==
    /\ pc["periodic"] = "sleeping"
    /\ \E t \in TimelyTimes :
           /\ t > clock
           /\ t - (wakeAt - INTERVAL_SECONDS) <= WINDOW_SECONDS
           /\ clock' = t
    /\ UNCHANGED <<confVars, fnVars, meterVars, envVars, users, pc, passVars, ctlVars, histVars>>

InitTimely == InitWith({StoreBehind}) /\ Configured

NextTimely ==
    \/ \E p \in Procs : Begin(p) \/ Find(p) \/ CallReturns(p) \/ Mark(p)
    \/ SchedulerSleep
    \/ SchedulerWake
    \/ manualRuns < MaxManual /\ RunOnceRequest("manual")
    \/ \E h \in Handlers : RunOnceRespond(h)
    \/ TickTimely

FairnessTimely ==
    /\ WF_vars(Begin("periodic"))
    /\ WF_vars(Find("periodic"))
    /\ WF_vars(CallReturns("periodic"))
    /\ WF_vars(Mark("periodic"))
    /\ WF_vars(SchedulerSleep)
    /\ WF_vars(SchedulerWake)
    /\ WF_vars(TickTimely)

SpecTimely == InitTimely /\ [][NextTimely]_vars /\ FairnessTimely

(***************************************************************************)
(* Metered runs.  The scheduler thread alone runs passes, the store        *)
(* answers and every call_phone raises; the invocations are counted.  The  *)
(* clock reads every half interval from the first scheduled instant to two *)
(* intervals past the end of its window, so that passes can start exactly  *)
(* INTERVAL_SECONDS apart or later, and a sleep that is too short shows.   *)
(***************************************************************************)
MeterTimes ==
    {t \in 0 .. (WINDOW_SECONDS + 2 * INTERVAL_SECONDS) : t % (INTERVAL_SECONDS \div 2) = 0}

TickMeter ==
    /\ \E t \in MeterTimes : t > clock /\ clock' = t
    /\ UNCHANGED <<confVars, fnVars, meterVars, envVars, users, pc, passVars, ctlVars, histVars>>

InitMeter == InitWith({StorePair}) /\ Configured

NextMeter ==
    \/ Begin("periodic")
    \/ Find("periodic")
    \/ CallRaisesCounted("periodic")
    \/ SchedulerSleep
    \/ SchedulerWake
    \/ TickMeter

SpecMeter == InitMeter /\ [][NextMeter]_vars

(***************************************************************************)
(* What the properties below speak of.                                     *)
(***************************************************************************)
Stored(k) == users[k[1]].reminders[k[2]]
StoredKeys == KeysOf(users)
SnapPositions(p) ==
    UNION {{<<u, i>> : i \in 1 .. Len(snap[p][u].reminders)} : u \in 1 .. Len(snap[p])}
SnapKeys(p) == {KeyOf(snap[p], pos) : pos \in SnapPositions(p)}
\* the copy of stored reminder k in the snapshot of pass p
SnapRem(p, k) ==
    LET u == CHOOSE u \in 1 .. Len(snap[p]) : snap[p][u].userId = users[k[1]].userId
    IN  snap[p][u].reminders[k[2]]
ParsedOf(r) == try_parse_datetime(r.date, r.time)
\* pass p is at call_phone or mark_called for reminder k
AtWork(p, k) == pc[p] \in {"call", "mark"} /\ CurKey(p) = k
\* reminder k, as pass p read it, is unfired with a naive instant inside the window
DueInSnapshot(p, k) ==
    /\ SnapRem(p, k).calledAt = Null
    /\ ParsedOf(SnapRem(p, k)).ok
    /\ ~ParsedOf(SnapRem(p, k)).aware
    /\ 0 <= now[p] - ParsedOf(SnapRem(p, k)).inst
    /\ now[p] - ParsedOf(SnapRem(p, k)).inst <= WINDOW_SECONDS

(***************************************************************************)
(* C1.  No reminder receives more than one successful provider call, over  *)
(* any interleaving of periodic and manual passes.  The code does not      *)
(* guarantee it: TLC finds two passes that both call the same reminder.    *)
(***************************************************************************)
C1_AtMostOneSuccessfulCall == \A k \in Keys : calls[k] <= 1

(***************************************************************************)
(* C2.  A pass whose snapshot was taken when the reminder's calledAt was   *)
(* already non-null never invokes the provider for that reminder.          *)
(***************************************************************************)
C2_NoCallOnceCalledAtSet ==
    \A p \in Procs : \A k \in snapMarked[p] : k \notin attempted[p] /\ ~AtWork(p, k)

\* a finished pass has examined, inside its window, a reminder that was already called
C2_Witness ==
    \E p \in Procs : \E k \in snapMarked[p] :
        /\ pc[p] = "returned"
        /\ k \in examined[p]
        /\ IsDue(now[p] - ParsedOf(Stored(k)).inst)
        /\ calls[k] = 1

(***************************************************************************)
(* C3.  calledAt of a reminder is written at most once.  The code does not *)
(* guarantee it: the createdAt filter of mark_called does not ask for      *)
(* calledAt = null, so a second pass that called the reminder overwrites.  *)
(***************************************************************************)
C3_CalledAtWrittenAtMostOnce == \A k \in Keys : writes[k] <= 1

(***************************************************************************)
(* C4.  mark_called runs only after call_phone has returned for the        *)
(* current reminder in the same pass; a pass writes no more reminders than *)
(* it placed calls for; and every reminder a pass writes was, in the       *)
(* pass's snapshot, unfired, parseable and inside the window (never        *)
(* not-yet-due, expired, unparseable or already called).                   *)
(***************************************************************************)
C4_WriteOnlyAfterSuccessfulCall ==
    \A p \in Procs :
        /\ pc[p] = "mark" => CurKey(p) \in dispatched[p]
        /\ dispatched[p] \subseteq attempted[p]
        /\ Cardinality(markedBy[p]) <= Cardinality(dispatched[p])
        /\ \A k \in markedBy[p] : k \in SnapKeys(p) /\ DueInSnapshot(p, k)
        /\ \A k \in markedBy[p] : \E d \in dispatched[p] :
               /\ d[1] = k[1]
               /\ \/ d = k
                  \/ /\ SnapRem(p, d).createdAt = NoId
                     /\ SnapRem(p, d).date = SnapRem(p, k).date
                     /\ SnapRem(p, d).time = SnapRem(p, k).time
                     /\ SnapRem(p, d).message = SnapRem(p, k).message

\* one pass has had a call raise, left that reminder unwritten, and written another
C4_Witness ==
    \E p \in Procs : \E k \in attempted[p] \ dispatched[p] :
        /\ markedBy[p] # {}
        /\ Stored(k).calledAt = Null
        /\ pc[p] = "returned"

(***************************************************************************)
(* C5.  Among the unfired reminders with a parseable instant s that a pass *)
(* examines, call_phone is invoked exactly for those with                  *)
(* 0 <= now - s <= WINDOW_SECONDS, both bounds included; with the window   *)
(* of 900, now - s = 1 is due, 901 is not and -1 is not.                   *)
(***************************************************************************)
C5_DueIffWithinWindow ==
    /\ WINDOW_SECONDS = 900 => IsDue(1) /\ ~IsDue(901) /\ ~IsDue(-1)
    /\ \A p \in Procs : \A k \in examined[p] :
           LET r == SnapRem(p, k)
               diff == now[p] - ParsedOf(r).inst
           IN  (r.calledAt = Null /\ ParsedOf(r).ok /\ ~ParsedOf(r).aware) =>
                   IF 0 <= diff /\ diff <= WINDOW_SECONDS
                   THEN k \in attempted[p] \/ AtWork(p, k)
                   ELSE k \notin attempted[p] /\ ~AtWork(p, k)

\* a pass that started at WINDOW_SECONDS + 1 has called the reminder scheduled at 1
\* (now - s = WINDOW_SECONDS) and passed over the unfired one scheduled at 0
C5_Witness ==
    \E p \in Procs : \E k1, k2 \in examined[p] :
        /\ now[p] = WINDOW_SECONDS + 1
        /\ ParsedOf(SnapRem(p, k1)).ok /\ ParsedOf(SnapRem(p, k1)).inst = 1
        /\ k1 \in attempted[p]
        /\ ParsedOf(SnapRem(p, k2)).ok /\ ParsedOf(SnapRem(p, k2)).inst = 0
        /\ SnapRem(p, k2).calledAt = Null
        /\ k2 \notin attempted[p]
        /\ pc[p] = "returned"

(***************************************************************************)
(* C6.  A pass whose 'now' is more than WINDOW_SECONDS after a reminder's  *)
(* instant neither calls the provider for it nor writes its calledAt; and  *)
(* 'now' of a pass is never ahead of the clock, so every pass that starts  *)
(* after one that found the reminder expired finds it expired as well.     *)
(***************************************************************************)
C6_ExpiredNeverNotified ==
    \A p \in Procs :
        /\ now[p] <= clock
        /\ \A k \in SnapKeys(p) :
               LET dt == ParsedOf(SnapRem(p, k))
               IN  (dt.ok /\ ~dt.aware /\ now[p] - dt.inst > WINDOW_SECONDS) =>
                       /\ k \notin attempted[p]
                       /\ k \notin markedBy[p]
                       /\ ~AtWork(p, k)

\* a finished pass has examined an expired reminder that is still unfired
C6_Witness ==
    \E p \in Procs : \E k \in examined[p] :
        /\ pc[p] = "returned"
        /\ ParsedOf(SnapRem(p, k)).ok
        /\ now[p] - ParsedOf(SnapRem(p, k)).inst > WINDOW_SECONDS
        /\ Stored(k).calledAt = Null
        /\ calls[k] = 0

(***************************************************************************)
(* C7.  After the provider has raised for a reminder, a later attempt that *)
(* succeeds and writes calledAt leaves calledAt written exactly once.  The *)
(* code does not guarantee it: two overlapping retries both write.         *)
(***************************************************************************)
C7_RetryWritesCalledAtOnce ==
    \A k \in failed : \A p \in Procs : k \in markedBy[p] => writes[k] = 1

(***************************************************************************)
(* C8.  No failure on one reminder aborts the pass: a pass that holds a    *)
(* snapshot ends only after examining every reminder in it.  The code does *)
(* not guarantee it: the time difference of line 141 is outside the try.   *)
(***************************************************************************)
C8_PassExaminesEveryReminder ==
    \A p \in Procs :
        (pc[p] \in {"returned", "raised"} /\ SnapKeys(p) # {}) => examined[p] = SnapKeys(p)

(***************************************************************************)
(* C9.  Under FairSpec: a periodic pass that ends with an error leads to   *)
(* the loop sleeping with the error logged and discarded, and from there   *)
(* to a further pass being started, however often this has happened.       *)
(***************************************************************************)
C9_LoopSurvivesFailingPass ==
    /\ (pc["periodic"] = "raised") ~> (pc["periodic"] = "sleeping" /\ schedulerError)
    /\ (pc["periodic"] = "sleeping" /\ schedulerError) ~> (pc["periodic"] = "find")

\* the loop sleeps after a failed pass, at a time when every window is closed
C9_Witness == pc["periodic"] = "sleeping" /\ schedulerError /\ clock = Horizon

(***************************************************************************)
(* C10.  Without a store handle, a Twilio client or a caller number, no    *)
(* pass queries the store, calls the provider, writes calledAt or raises.  *)
(***************************************************************************)
C10_UnconfiguredPassIsNoOp ==
    ~(db /\ twilio_client /\ TWILIO_PHONE) =>
        /\ ~queried
        /\ \A k \in Keys : calls[k] = 0 /\ writes[k] = 0
        /\ CalledKeys(users) = {}
        /\ \A p \in Procs : pc[p] \notin {"find", "call", "mark", "raised"} /\ attempted[p] = {}
        /\ \A h \in Handlers : response[h] # "error"
        /\ ~schedulerError

\* unconfigured, a periodic pass has returned to the loop and a manual one has answered
C10_Witness ==
    /\ ~(db /\ twilio_client /\ TWILIO_PHONE)
    /\ pc["periodic"] = "sleeping"
    /\ response["manual"] = "success"

(***************************************************************************)
(* C11.  POST /run-once answers success only for a pass without a          *)
(* pass-level failure (store unreachable, provider unconfigured), and      *)
(* answers with an error otherwise.  The code does not do this: a pass     *)
(* over an unconfigured store or provider returns at lines 118-123 and the *)
(* handler answers success.                                                *)
(***************************************************************************)
C11_ManualTriggerReportsFailure ==
    /\ response["manual"] = "success" => (db /\ twilio_client /\ TWILIO_PHONE)
    /\ (pc["manual"] = "idle" /\ manualRuns > 0 /\ ~(db /\ twilio_client /\ TWILIO_PHONE)) =>
           response["manual"] = "error"

(***************************************************************************)
(* C12.  Nothing keeps two passes from dispatching the same reminder.  A   *)
(* pass can begin while the other is between its query and its last write  *)
(* (no mutual exclusion); a pass at call_phone for a reminder the other    *)
(* pass has already called can have its own call return (the dispatch is   *)
(* not conditional); and a pass at mark_called for a reminder with a       *)
(* createdAt that is already marked still writes it (the write is not      *)
(* conditional).  The witness is the double dispatch itself.               *)
(***************************************************************************)
C12_DoubleDispatchReachable ==
    \A p \in Procs : \A q \in Procs \ {p} :
        /\ (pc[p] = "start" /\ pc[q] \in {"find", "call", "mark"}) =>
               ENABLED (Begin(p) /\ pc'[p] = "find")
        /\ (/\ pc[p] = "call"
            /\ CurKey(p) \in dispatched[q]
            /\ ProviderCanAccept(normalize_e164(CurUser(p).phoneNumber))) =>
               ENABLED (CallReturns(p) /\ calls'[CurKey(p)] = calls[CurKey(p)] + 1)
        /\ (/\ pc[p] = "mark"
            /\ CurRem(p).createdAt # NoId
            /\ Stored(CurKey(p)).calledAt # Null) =>
               MarkTarget(users, CurUser(p).userId, CurRem(p)) = CurKey(p)

\* both passes hold a snapshot taken while the reminder was unfired, both calls have
\* returned and the reminder has received two calls
C12_Witness ==
    \E k \in Keys :
        /\ calls[k] = 2
        /\ \A p \in {"periodic", "manual"} : /\ pc[p] = "mark"
                            /\ CurKey(p) = k
                            /\ k \in dispatched[p]
                            /\ k \notin snapMarked[p]
                            /\ CurRem(p).calledAt = Null

(***************************************************************************)
(* C13.  call_phone is never invoked, and calledAt never written, for a    *)
(* reminder of a user whose stored phone number is null, empty or          *)
(* normalizes to the empty number.  The code does not guarantee it: the    *)
(* filter of line 127 lets a null phoneNumber through, and line 146 calls  *)
(* call_phone with None.                                                   *)
(***************************************************************************)
C13_NoCallWithoutNumber ==
    \A p \in Procs : \A k \in StoredKeys :
        (\/ users[k[1]].phoneNumber \in {NoneStr, EmptyStr}
         \/ normalize_e164(users[k[1]].phoneNumber) = EmptyStr) =>
            /\ k \notin attempted[p]
            /\ ~AtWork(p, k)
            /\ writes[k] = 0

(***************************************************************************)
(* C14.  A pass that runs alone over a user with exactly two unfired       *)
(* reminders, one due and one not yet due, with the provider and the store *)
(* answering, makes exactly one call and exactly one calledAt write, both  *)
(* for the due reminder, and leaves the other reminder as it was.          *)
(***************************************************************************)
C14_OneCallOneWrite ==
    (manualRuns = 0 /\ pc["periodic"] = "returned") =>
        \A u \in 1 .. Len(snap["periodic"]) :
            LET p == "periodic"
                ks == {KeyOf(snap[p], <<u, i>>) : i \in 1 .. Len(snap[p][u].reminders)}
            IN  \A due \in ks : \A later \in ks \ {due} :
                    (/\ Cardinality(ks) = 2
                     /\ DueInSnapshot(p, due)
                     /\ SnapRem(p, later).calledAt = Null
                     /\ ParsedOf(SnapRem(p, later)).ok
                     /\ ~ParsedOf(SnapRem(p, later)).aware
                     /\ now[p] < ParsedOf(SnapRem(p, later)).inst
                     /\ (attempted[p] \cap ks) \subseteq dispatched[p]
                     /\ unwritten[p] \cap ks = {}) =>
                        /\ attempted[p] \cap ks = {due}
                        /\ dispatched[p] \cap ks = {due}
                        /\ markedBy[p] \cap ks = {due}
                        /\ writes[due] = 1 /\ calls[due] = 1
                        /\ Stored(due).calledAt # Null
                        /\ Stored(due) = [SnapRem(p, due) EXCEPT !.calledAt = Stored(due).calledAt]
                        /\ writes[later] = 0 /\ calls[later] = 0
                        /\ Stored(later) = SnapRem(p, later)

\* the first periodic pass, alone, has called and written the reminder due at 0 and
\* has examined the one scheduled a second later
C14_Witness ==
    /\ manualRuns = 0
    /\ pc["periodic"] = "returned"
    /\ now["periodic"] = 0
    /\ users[1].reminders[1].calledAt # Null
    /\ users[1].reminders[2].calledAt = Null
    /\ examined["periodic"] = {<<1, 1>>, <<1, 2>>}
    /\ dispatched["periodic"] = {<<1, 1>>}
    /\ markedBy["periodic"] = {<<1, 1>>}
    /\ Len(users[1].reminders) = 2

(***************************************************************************)
(* C15.  Every mark_called whose update_one is applied changes the store   *)
(* in one place at most, the calledAt of one reminder of the user the      *)
(* dispatched reminder was read from: the dispatched reminder itself when  *)
(* it carries a createdAt, and otherwise a reminder of that user with the  *)
(* same date, time and message whose calledAt was null (no write at all    *)
(* when there is none).  The reminders of every other user stay as they    *)
(* are.                                                                    *)
(***************************************************************************)
C15_MarkSetsTheDispatchedReminder ==
    [][\A p \in Procs :
          (pc[p] = "mark" /\ pc'[p] # "mark" /\ unwritten'[p] = unwritten[p]) =>
              IF CurRem(p).createdAt # NoId
              THEN users' = [users EXCEPT ![CurKey(p)[1]].reminders[CurKey(p)[2]].calledAt = clock]
              ELSE LET twins == {k \in StoredKeys :
                                    /\ k[1] = CurKey(p)[1]
                                    /\ Stored(k).date = CurRem(p).date
                                    /\ Stored(k).time = CurRem(p).time
                                    /\ Stored(k).message = CurRem(p).message
                                    /\ Stored(k).calledAt = Null}
                   IN  IF twins = {}
                       THEN users' = users
                       ELSE \E k \in twins :
                                users' = [users EXCEPT ![k[1]].reminders[k[2]].calledAt = clock]
      ]_vars

\* one pass has written a reminder without createdAt after the reminder with a
\* createdAt of the same user was written
C15_Witness ==
    \E p \in Procs : \E k \in markedBy[p] : \E j \in StoredKeys :
        /\ Stored(k).createdAt = NoId
        /\ Stored(k).calledAt # Null
        /\ j[1] = k[1]
        /\ Stored(j).createdAt # NoId
        /\ Stored(j).calledAt # Null
        /\ writes[j] > 0

(***************************************************************************)
(* C16.  With a createdAt, mark_called cannot tag another reminder: in     *)
(* every store reached, the update for a reminder that carries a createdAt *)
(* targets that reminder, and a pass has written such a reminder only      *)
(* after its own call for it returned.  Without one it can: a reminder a   *)
(* pass has written without having called it has no createdAt and equals,  *)
(* in date, time and message, a reminder of the same user that the pass    *)
(* did call.  The witness is such a mis-tagged pair.                       *)
(***************************************************************************)
C16_MisTagOnlyWithoutIdentifier ==
    /\ \A k \in StoredKeys :
           Stored(k).createdAt # NoId =>
               MarkTarget(users, users[k[1]].userId, Stored(k)) = k
    /\ \A p \in Procs : \A k \in markedBy[p] :
           /\ Stored(k).createdAt # NoId => k \in dispatched[p]
           /\ k \notin dispatched[p] =>
                  \E d \in dispatched[p] :
                      /\ d[1] = k[1]
                      /\ Stored(d).createdAt = NoId
                      /\ Stored(d).date = Stored(k).date
                      /\ Stored(d).time = Stored(k).time
                      /\ Stored(d).message = Stored(k).message

\* a pass has called one of two value-identical reminders and its write has set
\* calledAt on the other, which it has not called; the one called is still unfired
C16_Witness ==
    \E p \in Procs : \E d \in dispatched[p] : \E k \in markedBy[p] :
        /\ k # d
        /\ k \notin dispatched[p]
        /\ d \notin markedBy[p]
        /\ Stored(k).calledAt # Null
        /\ Stored(d).calledAt = Null
        /\ calls[k] = 0
        /\ unwritten[p] = {}

(***************************************************************************)
(* C17.  No step of a periodic pass, of a manual pass or of the health     *)
(* query changes the store other than by setting calledAt of one reminder, *)
(* and that only as the mark_called of a pass whose call_phone for the     *)
(* current reminder has returned: the users, their userId, phoneNumber and *)
(* phoneRemindersEnabled, and the number, date, time, message and          *)
(* createdAt of their reminders stay as they are.                          *)
(***************************************************************************)
C17_OnlyCalledAtIsWritten ==
    [][users' # users =>
           /\ \E p \in Procs : /\ pc[p] = "mark"
                               /\ pc'[p] # "mark"
                               /\ CurKey(p) \in dispatched[p]
           /\ health' = health
           /\ Len(users') = Len(users)
           /\ \A u \in 1 .. Len(users) :
                  /\ users'[u].userId = users[u].userId
                  /\ users'[u].phoneNumber = users[u].phoneNumber
                  /\ users'[u].phoneRemindersEnabled = users[u].phoneRemindersEnabled
                  /\ Len(users'[u].reminders) = Len(users[u].reminders)
                  /\ \A i \in 1 .. Len(users[u].reminders) :
                         /\ users'[u].reminders[i].date = users[u].reminders[i].date
                         /\ users'[u].reminders[i].time = users[u].reminders[i].time
                         /\ users'[u].reminders[i].message = users[u].reminders[i].message
                         /\ users'[u].reminders[i].createdAt = users[u].reminders[i].createdAt
           /\ Cardinality({k \in StoredKeys :
                              users'[k[1]].reminders[k[2]].calledAt # Stored(k).calledAt}) = 1
           /\ \A k \in StoredKeys :
                  users'[k[1]].reminders[k[2]].calledAt # Stored(k).calledAt =>
                      users'[k[1]].reminders[k[2]].calledAt # Null
      ]_vars

\* the reminder has been called and written, the health query has been answered and
\* both paths have finished a pass
C17_Witness ==
    /\ \E k \in StoredKeys : Stored(k).calledAt # Null /\ writes[k] > 0
    /\ health # NoHealth
    /\ response["manual"] = "success"
    /\ pc["periodic"] = "sleeping"

(***************************************************************************)
(* C18.  The health query changes nothing but its own response: it makes   *)
(* no store query, no provider call and no calledAt write and moves no     *)
(* pass, in any state, a pass in flight included; and the response reports *)
(* whether the store handle exists, whether the provider is configured,    *)
(* and windowSeconds and intervalSeconds.                                  *)
(***************************************************************************)
C18_HealthHasNoSideEffects ==
    [][health' # health =>
           /\ UNCHANGED <<db, twilio_client, TWILIO_PHONE, users, clock, pc, now, snap, ui, ri>>
           /\ UNCHANGED <<wakeAt, manualRuns, schedulerError, response, overtaken, arg, ret, tries>>
           /\ UNCHANGED <<queried, failed, calls, writes, examined, attempted, dispatched,
                          markedBy, unwritten, snapMarked>>
           /\ health'.ok = TRUE
           /\ health'.mongodb = db
           /\ health'.twilio = (twilio_client /\ TWILIO_PHONE)
           /\ health'.windowSeconds = WINDOW_SECONDS
           /\ health'.intervalSeconds = INTERVAL_SECONDS
      ]_vars

\* the health query has been answered while both paths were inside a pass, one of
\* them between call_phone and mark_called
C18_Witness ==
    /\ health # NoHealth
    /\ health.mongodb /\ health.twilio
    /\ pc["periodic"] = "mark"
    /\ pc["manual"] = "call"
    /\ \A k \in StoredKeys : Stored(k).calledAt = Null

(***************************************************************************)
(* C20.  A reminder whose instant is after the 'now' of a pass is neither  *)
(* called nor written by that pass; as long as the clock has not reached   *)
(* its instant it has had no call and its calledAt is null; and a pass     *)
(* that reads it unfired and examines it with 'now' inside its window      *)
(* invokes call_phone for it.                                              *)
(***************************************************************************)
C20_FutureReminderWaits ==
    /\ \A k \in StoredKeys :
           LET dt == ParsedOf(Stored(k))
           IN  (dt.ok /\ ~dt.aware /\ clock < dt.inst) =>
                   /\ Stored(k).calledAt = Null
                   /\ calls[k] = 0 /\ writes[k] = 0
                   /\ k \notin failed
    /\ \A p \in Procs : \A pos \in SnapPositions(p) :
           LET r == snap[p][pos[1]].reminders[pos[2]]
               dt == ParsedOf(r)
               k == KeyOf(snap[p], pos)
           IN  /\ (dt.ok /\ ~dt.aware /\ now[p] < dt.inst) =>
                      /\ k \notin attempted[p]
                      /\ k \notin markedBy[p]
                      /\ ~AtWork(p, k)
               /\ (/\ k \in examined[p]
                   /\ r.calledAt = Null
                   /\ dt.ok /\ ~dt.aware
                   /\ now[p] >= dt.inst
                   /\ now[p] - dt.inst <= WINDOW_SECONDS) =>
                      k \in attempted[p] \/ AtWork(p, k)

\* a pass with 'now' before the reminder's instant has examined it and finished
\* without calling it, and a pass with a later 'now', inside the window, has called it
C20_Witness ==
    \E p \in Procs : \E q \in Procs \ {p} : \E k \in examined[p] :
        /\ pc[p] = "returned"
        /\ ParsedOf(Stored(k)).ok
        /\ now[p] < ParsedOf(Stored(k)).inst
        /\ k \notin attempted[p]
        /\ now[q] >= ParsedOf(Stored(k)).inst
        /\ now[q] - ParsedOf(Stored(k)).inst <= WINDOW_SECONDS
        /\ k \in dispatched[q]
        /\ calls[k] = 1

(***************************************************************************)
(* C19.  A POST /run-once request is accepted whatever the other threads   *)
(* are doing, and its pass begins whatever they are doing; between the     *)
(* request and the response the handler runs process_due_once once, from   *)
(* its entry to its return or its exception, and never enters it again;    *)
(* and the response is produced by the step that ends that pass, never     *)
(* earlier.                                                                *)
(***************************************************************************)
C19_TriggerRunsOnePass ==
    /\ [](\A h \in Handlers :
              /\ (pc[h] = "idle" /\ (h = "manual" \/ pc["manual"] # "idle")) =>
                     ENABLED (RunOnceRequest(h) /\ pc'[h] = "start")
              /\ (pc[h] = "start" /\ db /\ twilio_client /\ TWILIO_PHONE) =>
                     ENABLED (Begin(h) /\ pc'[h] = "find"))
    /\ [][\A h \in Handlers :
              /\ pc[h] = "idle" => pc'[h] \in {"idle", "start"}
              /\ pc[h] = "start" => pc'[h] \in {"start", "find", "returned"}
              /\ pc[h] \in {"find", "call", "mark"} =>
                     pc'[h] \in {pc[h], "call", "mark", "returned", "raised"}
              /\ pc[h] \in {"returned", "raised"} => pc'[h] \in {pc[h], "idle"}
              /\ (pc[h] = "idle" /\ pc'[h] = "start") =>
                     /\ manualRuns' = manualRuns + 1
                     /\ response'[h] = "none"
              /\ (pc[h] \in {"returned", "raised"} /\ pc'[h] = "idle") =>
                     response'[h] = IF pc[h] = "returned" THEN "success" ELSE "error"
              /\ response'[h] # response[h] =>
                     \/ pc[h] = "idle" /\ pc'[h] = "start"
                     \/ pc[h] \in {"returned", "raised"} /\ pc'[h] = "idle"
      ]_vars

\* two requests are being handled at once while the periodic pass is between its
\* call and its write, and neither has been answered
C19_Witness ==
    /\ manualRuns = 2
    /\ pc["periodic"] = "mark"
    /\ pc["manual"] = "call"
    /\ pc["manual2"] = "find"
    /\ response["manual"] = "none" /\ response["manual2"] = "none"

(***************************************************************************)
(* C21.  A reminder whose date or time is missing, or whose date and time  *)
(* are in none of the accepted formats, is unparseable: no pass invokes    *)
(* call_phone for it or writes its calledAt, no pass raises at it, and a   *)
(* pass that has examined it has gone on to the reminder after it, or has  *)
(* returned when there is none.                                            *)
(***************************************************************************)
NoAcceptedFormat(r) ==
    \/ r.date.fmt = "none"
    \/ r.time.fmt = "none"
    \/ /\ ~(r.date.fmt = "iso" /\ r.time.fmt \in {"hm", "hms", "hm_tz"})
       /\ ~(r.date.fmt = "dmy" /\ r.time.fmt = "hm")

C21_UnparseableIsSkipped ==
    \A p \in Procs : \A pos \in SnapPositions(p) :
        LET r == snap[p][pos[1]].reminders[pos[2]]
            k == KeyOf(snap[p], pos)
            nxt == NormPos(snap[p], pos[1], pos[2] + 1)
        IN  NoAcceptedFormat(r) =>
                /\ k \notin attempted[p]
                /\ k \notin markedBy[p]
                /\ ~AtWork(p, k)
                /\ calls[k] = 0 /\ writes[k] = 0 /\ k \notin failed
                /\ Stored(k).calledAt = Null
                /\ ~(pc[p] = "raised" /\ <<ui[p], ri[p]>> = pos)
                /\ k \in examined[p] =>
                       IF nxt[1] > Len(snap[p])
                       THEN pc[p] = "returned"
                       ELSE KeyOf(snap[p], nxt) \in examined[p]

\* a pass has gone past the five unparseable reminders, has called and written the
\* one after them and has returned
C21_Witness ==
    \E p \in Procs :
        /\ pc[p] = "returned"
        /\ Cardinality({k \in examined[p] : NoAcceptedFormat(Stored(k))}) = 5
        /\ \E k \in dispatched[p] \cap markedBy[p] :
               /\ k[2] = Len(users[k[1]].reminders)
               /\ Stored(k).calledAt # Null
        /\ \A k \in StoredKeys : NoAcceptedFormat(Stored(k)) => Stored(k).calledAt = Null

(***************************************************************************)
(* C22.  normalize_e164 returns the empty string for the empty string      *)
(* (and None for None); for every other raw number it returns the          *)
(* characters that lie between the first and the last non-whitespace       *)
(* character and are no space, hyphen or parenthesis, in their order, as   *)
(* they are when the first of them is '+' and after DEFAULT_COUNTRY_CODE   *)
(* when it is not.  With "+91", "98765 43210" gives "+919876543210" and    *)
(* "+1 555-123-4567" gives "+15551234567".                                 *)
(***************************************************************************)
KeptIndices(raw) ==
    {i \in 1 .. Len(raw) :
        /\ \E j \in 1 .. i : raw[j] \notin Whitespace
        /\ \E j \in i .. Len(raw) : raw[j] \notin Whitespace
        /\ raw[i] \notin {" ", "-", "(", ")"}}

RECURSIVE CharsAt(_, _)
CharsAt(raw, idx) ==
    IF idx = {} THEN << >>
    ELSE LET i == CHOOSE i \in idx : \A j \in idx : i <= j
         IN  <<raw[i]>> \o CharsAt(raw, idx \ {i})

C22_NormalizeE164 ==
    /\ DEFAULT_COUNTRY_CODE = <<"+", "9", "1">> =>
           /\ normalize_e164(Number98765) =
                  <<"+", "9", "1", "9", "8", "7", "6", "5", "4", "3", "2", "1", "0">>
           /\ normalize_e164(NumberPlus1) =
                  <<"+", "1", "5", "5", "5", "1", "2", "3", "4", "5", "6", "7">>
    /\ ret # << >> =>
           IF arg = EmptyStr \/ arg = NoneStr
           THEN ret[1] = arg
           ELSE LET body == CharsAt(arg, KeptIndices(arg))
                IN  ret[1] = IF body # << >> /\ body[1] = "+"
                             THEN body
                             ELSE DEFAULT_COUNTRY_CODE \o body

\* the function has been applied to a number with a tab before it and a space after
\* it, which has no '+', and has answered
C22_Witness ==
    /\ arg = <<"\t", "9", " ">>
    /\ ret = <<DEFAULT_COUNTRY_CODE \o <<"9">> >>

(***************************************************************************)
(* C23.  try_parse_datetime returns the instant of the first of these that *)
(* parses: 'date time' as an ISO string, date 'T' time as an ISO string,   *)
(* 'date time' as DD/MM/YYYY HH:MM; and reports unparseable when none      *)
(* does.  ("2024-05-01", "09:30") and ("01/05/2024", "09:30") both give    *)
(* 2024-05-01T09:30, which is 1714555800 seconds after 1970-01-01T00:00,   *)
(* and ("not-a-date", "09:30") is unparseable.                             *)
(***************************************************************************)
C23_ParseFirstFormThatParses ==
    /\ try_parse_datetime(DateStrOf(Date_2024_05_01), TimeStrOf(Time_09_30)) =
           [ok |-> TRUE, inst |-> 1714555800, aware |-> FALSE]
    /\ try_parse_datetime(DateStrOf(Date_01_05_2024), TimeStrOf(Time_09_30)) =
           [ok |-> TRUE, inst |-> 1714555800, aware |-> FALSE]
    /\ ~try_parse_datetime(DateStrOf(Date_not_a_date), TimeStrOf(Time_09_30)).ok
    /\ ret # << >> =>
           LET d == DateStrOf(arg[1])
               t == TimeStrOf(arg[2])
               dateTime == fromisoformat(d, " ", t)
               dateTTime == fromisoformat(d, "T", t)
               fallback == strptime(d, " ", t)
           IN  ret[1] = IF arg[1] \in {EmptyStr, NoneStr} \/ arg[2] \in {EmptyStr, NoneStr}
                        THEN NoneDt
                        ELSE IF dateTime.ok THEN dateTime
                        ELSE IF dateTTime.ok THEN dateTTime
                        ELSE IF fallback.ok THEN fallback
                        ELSE NoneDt

\* the function has been applied to ("01/05/2024", "09:30") and has returned the
\* instant 2024-05-01T09:30
C23_Witness ==
    /\ arg = <<Date_01_05_2024, Time_09_30>>
    /\ ret = <<[ok |-> TRUE, inst |-> 1714555800, aware |-> FALSE]>>

(***************************************************************************)
(* C24.  A pass decides from the snapshot of its query alone.  A reminder  *)
(* that the snapshot shows unfired and due is dispatched when the loops    *)
(* reach it, also when its user was disabled or its calledAt was written   *)
(* by another pass before they reached it; and no pass invokes call_phone  *)
(* for a stored reminder that is not in its snapshot, whatever the store   *)
(* says of it now.                                                         *)
(***************************************************************************)
C24_SnapshotDecides ==
    \A p \in Procs :
        /\ \A pos \in SnapPositions(p) :
               LET r == snap[p][pos[1]].reminders[pos[2]]
                   dt == ParsedOf(r)
                   k == KeyOf(snap[p], pos)
               IN  (/\ k \in overtaken[p] \cap examined[p]
                    /\ r.calledAt = Null
                    /\ dt.ok /\ ~dt.aware
                    /\ 0 <= now[p] - dt.inst /\ now[p] - dt.inst <= WINDOW_SECONDS) =>
                       k \in attempted[p] \/ AtWork(p, k)
        /\ \A k \in StoredKeys \ SnapKeys(p) : k \notin attempted[p] /\ ~AtWork(p, k)

\* a pass has called a reminder that, before its loops reached it, another pass had
\* called and written and whose user had been disabled; and the user who has been
\* enabled since its query, and the reminder added since, are not in its snapshot
C24_Witness ==
    \E p \in Procs : \E k \in overtaken[p] \cap dispatched[p] :
        /\ pc[p] = "mark" /\ CurKey(p) = k
        /\ ~users[k[1]].phoneRemindersEnabled
        /\ Stored(k).calledAt # Null
        /\ calls[k] = 2
        /\ \E j \in StoredKeys \ SnapKeys(p) :
               /\ j[1] # k[1]
               /\ users[j[1]].phoneRemindersEnabled
               /\ Stored(j).calledAt = Null
               /\ IsDue(now[p] - ParsedOf(Stored(j)).inst)
        /\ \E j \in StoredKeys \ SnapKeys(p) : j[1] = k[1] /\ Stored(j) = NewReminder

(***************************************************************************)
(* C25.  A pass works on one reminder at a time, in the order of its       *)
(* snapshot.  Every step of a pass that moves its loops moves them forward *)
(* (to a later user, or to a later reminder of the same user) and examines *)
(* exactly the reminders in between; the loops leave a reminder that is at *)
(* call_phone only in the step in which the call raises, and one that is   *)
(* at mark_called only in the step in which update_one is applied or       *)
(* raises; call_phone is invoked for no reminder but the current one; and  *)
(* every reminder the pass has invoked call_phone for lies before the      *)
(* current one.                                                            *)
(***************************************************************************)
Before(a, b) == a[1] < b[1] \/ (a[1] = b[1] /\ a[2] < b[2])

C25_OneReminderAtATime ==
    [][\A p \in Procs :
          (pc[p] \in {"find", "call", "mark"} /\ pc'[p] \in {"call", "mark", "returned", "raised"}) =>
              LET here == <<ui[p], ri[p]>>
                  there == <<ui'[p], ri'[p]>>
                  s == snap'[p]
                  positions == UNION {{<<u, i>> : i \in 1 .. Len(s[u].reminders)} :
                                          u \in 1 .. Len(s)}
                  moved == {pos \in positions :
                               /\ pc[p] = "find" \/ Before(here, pos)
                               /\ Before(pos, there) \/ (pos = there /\ pc'[p] # "returned")}
              IN  /\ pc[p] # "find" => snap'[p] = snap[p]
                  /\ there # here => pc[p] = "find" \/ Before(here, there)
                  /\ s # << >> =>
                         examined'[p] = examined[p] \cup {KeyOf(s, pos) : pos \in moved}
                  /\ (pc[p] = "call" /\ there # here) =>
                         /\ CurKey(p) \in failed'
                         /\ CurKey(p) \notin dispatched'[p]
                         /\ calls' = calls
                  /\ (pc[p] = "call" /\ there = here) =>
                         /\ pc'[p] \in {"call", "mark"}
                         /\ pc'[p] = "mark" => calls'[CurKey(p)] = calls[CurKey(p)] + 1
                  /\ (pc[p] = "mark" /\ there # here) =>
                         /\ CurKey(p) \in dispatched[p]
                         /\ \/ users' = mark_called(users, CurUser(p).userId, CurRem(p), clock)
                            \/ unwritten'[p] = unwritten[p] \cup {CurKey(p)}
                  /\ attempted'[p] \ attempted[p] \subseteq
                         (IF pc[p] = "call" THEN {CurKey(p)} ELSE {})
                  /\ \A k \in Keys : calls'[k] # calls[k] => \E q \in Procs : AtWork(q, k)
                  /\ pc'[p] \in {"call", "mark"} =>
                         \A pos \in positions :
                             KeyOf(s, pos) \in attempted'[p] =>
                                 Before(pos, there) \/ (pos = there /\ pc'[p] = "mark")
      ]_vars

\* in one pass the call for a reminder of the first user has raised and, after it, a
\* reminder of the second user has been called and written
C25_Witness ==
    \E p \in Procs : \E k1, k2 \in attempted[p] :
        /\ k1[1] < k2[1]
        /\ k1 \in failed /\ k1 \notin dispatched[p]
        /\ k2 \in dispatched[p] \cap markedBy[p]
        /\ Stored(k1).calledAt = Null
        /\ Stored(k2).calledAt # Null

(***************************************************************************)
(* C26.  With every provider call and store operation returning, a         *)
(* periodic pass that holds a snapshot has examined every reminder of      *)
(* every user in it when the loop is about to sleep.  The code does not    *)
(* guarantee it: a pass ends at the TypeError of line 141 (C8) with the    *)
(* reminders behind the offending one unexamined, and the loop sleeps.     *)
(***************************************************************************)
C26_PeriodicPassRunsToCompletion ==
    (/\ pc["periodic"] \in {"returned", "raised"}
     /\ ENABLED SchedulerSleep
     /\ snap["periodic"] # << >>) =>
        \A pos \in SnapPositions("periodic") :
            KeyOf(snap["periodic"], pos) \in examined["periodic"]

(***************************************************************************)
(* C27.  When call_phone has returned for a reminder and update_one then   *)
(* raises, the error stays inside the pass: the store is as it was, with   *)
(* calledAt of the reminder null if it was null, and the loops go on to    *)
(* the next reminder or the pass returns.  A reminder that has been called *)
(* and never written is called again by every pass that examines it with   *)
(* 'now' inside its window.                                                *)
(***************************************************************************)
C27_FailedWriteIsRetried ==
    /\ [][\A p \in Procs :
              (pc[p] = "mark" /\ unwritten'[p] # unwritten[p]) =>
                  /\ CurKey(p) \in dispatched[p]
                  /\ unwritten'[p] = unwritten[p] \cup {CurKey(p)}
                  /\ users' = users
                  /\ writes' = writes
                  /\ \/ pc'[p] = "returned"
                     \/ examined'[p] # examined[p]
          ]_vars
    /\ [](\A q \in Procs : \A pos \in SnapPositions(q) :
              LET r == snap[q][pos[1]].reminders[pos[2]]
                  dt == ParsedOf(r)
                  k == KeyOf(snap[q], pos)
              IN  (/\ k \in examined[q]
                   /\ calls[k] > 0 /\ writes[k] = 0
                   /\ dt.ok /\ ~dt.aware
                   /\ 0 <= now[q] - dt.inst /\ now[q] - dt.inst <= WINDOW_SECONDS) =>
                      /\ r.calledAt = Null
                      /\ k \in attempted[q] \/ AtWork(q, k))

\* the manual pass has ended and the reminder has never been written; the periodic
\* pass, with 'now' at the end of the window, has placed the second call for it
C27_Witness ==
    \E k \in StoredKeys :
        /\ manualRuns = 1 /\ pc["manual"] = "idle" /\ response["manual"] = "success"
        /\ pc["periodic"] = "mark" /\ CurKey("periodic") = k
        /\ now["periodic"] - ParsedOf(Stored(k)).inst = WINDOW_SECONDS
        /\ calls[k] = 2
        /\ writes[k] = 0
        /\ k \notin failed
        /\ Stored(k).calledAt = Null

(***************************************************************************)
(* C28.  Over passes that do not overlap, with the provider failing at     *)
(* will and every update_one applied: among the reminders of a user that   *)
(* have no createdAt and share date, time and message, as many have a      *)
(* calledAt as call_phone has returned for, less the one call whose write  *)
(* is still to come while a pass stands between lines 146 and 147.  So     *)
(* between passes the two numbers are equal, and a group of k reminders is *)
(* never called more than k times, whichever member each write has set.    *)
(***************************************************************************)
SameGroup(j, k) ==
    /\ j[1] = k[1]
    /\ Stored(j).createdAt = NoId /\ Stored(k).createdAt = NoId
    /\ Stored(j).date = Stored(k).date
    /\ Stored(j).time = Stored(k).time
    /\ Stored(j).message = Stored(k).message

GroupOf(k) == {j \in StoredKeys : SameGroup(j, k)}

RECURSIVE SumCalls(_)
SumCalls(ks) ==
    IF ks = {} THEN 0
    ELSE LET k == CHOOSE k \in ks : TRUE IN calls[k] + SumCalls(ks \ {k})

Fired(ks) == {j \in ks : Stored(j).calledAt # Null}

Pending(ks) == {p \in Procs : pc[p] = "mark" /\ CurKey(p) \in ks}

Eligible(k) ==
    /\ k \in StoredKeys
    /\ users[k[1]].phoneRemindersEnabled = TRUE
    /\ users[k[1]].phoneNumber \notin {NoneStr, EmptyStr}
    /\ ParsedOf(Stored(k)).ok
    /\ Stored(k).calledAt = Null

C29_TimelyPassesFireEveryReminder ==
    \A k \in Keys :
        (Eligible(k) /\ clock < ParsedOf(Stored(k)).inst)
            ~> (k \in StoredKeys /\ Stored(k).calledAt # Null)

(***************************************************************************)
(* C30.  Line 125 reads the clock once: from the query to the end of a     *)
(* pass its 'now' is the clock of its first step and no step changes it,   *)
(* however far the clock has moved on.  Every reminder the pass examines   *)
(* that is unfired in its snapshot and parses to a naive datetime is       *)
(* handed to call_phone exactly if 0 <= now - instant <= WINDOW_SECONDS    *)
(* with that 'now': also when the clock has left its window during an      *)
(* earlier call_phone of the pass, and not when the clock has reached its  *)
(* instant during the pass.                                                *)
(***************************************************************************)
InPass(p) == pc[p] \in {"find", "call", "mark", "returned", "raised"}

C30_NowIsReadOncePerPass ==
    /\ [][\A p \in Procs :
              /\ (pc[p] = "start" /\ pc'[p] = "find") => now'[p] = clock
              /\ (InPass(p) /\ InPass(p)') => now'[p] = now[p]
          ]_vars
    /\ [](\A p \in Procs : InPass(p) =>
              /\ now[p] <= clock
              /\ \A pos \in SnapPositions(p) :
                     LET r == snap[p][pos[1]].reminders[pos[2]]
                         dt == ParsedOf(r)
                         k == KeyOf(snap[p], pos)
                     IN  (k \in examined[p] /\ r.calledAt = Null /\ dt.ok /\ ~dt.aware) =>
                             ((k \in attempted[p] \/ AtWork(p, k))
                                  <=> (0 <= now[p] - dt.inst /\ now[p] - dt.inst <= WINDOW_SECONDS)))

\* two passes over the same two reminders.  The manual pass read 'now' before the
\* instant of the second reminder and has returned without calling it, though the
\* clock reached that instant while its call for the first was under way.  The
\* periodic pass read 'now' at that instant, was held in call_phone for the first
\* reminder until the window of the second was over, and has called the second.
C30_Witness ==
    \E j \in StoredKeys : \E k \in StoredKeys :
        LET inst == ParsedOf(Stored(k)).inst
        IN  /\ j # k
            /\ pc["manual"] = "returned"
            /\ j \in dispatched["manual"]
            /\ k \in examined["manual"] \ attempted["manual"]
            /\ now["manual"] < inst
            /\ pc["periodic"] = "mark" /\ CurKey("periodic") = k
            /\ j \in dispatched["periodic"]
            /\ k \in dispatched["periodic"]
            /\ now["periodic"] = inst
            /\ clock - inst > WINDOW_SECONDS

(***************************************************************************)
(* C31.  When every call_phone for a reminder raises, the scheduler thread *)
(* invokes it for that reminder at most WINDOW_SECONDS \div               *)
(* INTERVAL_SECONDS + 1 times, 16 with 900 and 60.  An invocation is the   *)
(* first of its pass for the reminder and is made with 0 <= now - instant  *)
(* <= WINDOW_SECONDS; the sleep is set to end INTERVAL_SECONDS after its   *)
(* start, which is not before the pass read 'now', and the loop iterates   *)
(* only when the clock has reached that end.                               *)
(***************************************************************************)
MaxTries == WINDOW_SECONDS \div INTERVAL_SECONDS + 1

C31_PeriodicAttemptsAreBounded ==
    /\ [](\A k \in Keys : tries[k] <= MaxTries)
    /\ [](MaxTries = 16)
    /\ [][
          /\ \A k \in Keys :
                 tries'[k] # tries[k] =>
                     /\ tries'[k] = tries[k] + 1
                     /\ pc["periodic"] = "call" /\ CurKey("periodic") = k
                     /\ k \notin attempted["periodic"]
                     /\ k \in attempted'["periodic"]
                     /\ 0 <= now["periodic"] - ParsedOf(Stored(k)).inst
                     /\ now["periodic"] - ParsedOf(Stored(k)).inst <= WINDOW_SECONDS
          /\ (pc["periodic"] # "sleeping" /\ pc'["periodic"] = "sleeping") =>
                 /\ now["periodic"] <= clock
                 /\ wakeAt' = clock + INTERVAL_SECONDS
          /\ (pc["periodic"] = "sleeping" /\ pc'["periodic"] # "sleeping") =>
                 /\ clock >= wakeAt
                 /\ pc'["periodic"] = "start"
       ]_vars

\* the sixteenth invocation for a reminder has raised, in the pass that read 'now' at
\* the last instant of its window
C31_Witness ==
    \E k \in StoredKeys :
        /\ tries[k] = MaxTries
        /\ k \in attempted["periodic"]
        /\ now["periodic"] - ParsedOf(Stored(k)).inst = WINDOW_SECONDS
        /\ calls[k] = 0
        /\ Stored(k).calledAt = Null

(***************************************************************************)
(* C32.  There is one scheduler thread (line 183) and its loop is          *)
(* sequential: it enters a pass only from the head of the loop, reaches    *)
(* time.sleep only from a pass that has returned or raised, and comes back *)
(* to the head of the loop only from the sleep, when the sleep is over.    *)
(* So of any two passes that are under way at once, one at least runs on a *)
(* thread that handles a POST /run-once request.                           *)
(***************************************************************************)
UnderWay == {p \in Procs : pc[p] \in {"find", "call", "mark"}}

C32_PeriodicPassesDoNotOverlap ==
    /\ [](\A p \in UnderWay : \A q \in UnderWay \ {p} : p \in Handlers \/ q \in Handlers)
    /\ [][
          /\ ("periodic" \in UnderWay' /\ "periodic" \notin UnderWay)
                 => pc["periodic"] = "start"
          /\ (pc'["periodic"] = "sleeping" /\ pc["periodic"] # "sleeping")
                 => /\ pc["periodic"] \in {"returned", "raised"}
                    /\ wakeAt' = clock + INTERVAL_SECONDS
          /\ (pc'["periodic"] = "start" /\ pc["periodic"] # "start")
                 => /\ pc["periodic"] = "sleeping"
                    /\ clock >= wakeAt \/ clock = Horizon
       ]_vars

\* the scheduler thread is in a pass that is not its first, since a call_phone has
\* raised for a reminder that neither it nor the only manual pass, which is under way
\* as well, has attempted
C32_Witness ==
    /\ UnderWay = {"periodic", "manual"}
    /\ manualRuns = 1
    /\ \E j \in failed : j \notin attempted["periodic"] \cup attempted["manual"]

====
